---- MODULE Spec2Model ----
(***************************************************************************)
(* Model of the scientific calculator of utility_dispatcher.py:            *)
(* scientific_calculator(expression) = _eval(ast.parse(expression,         *)
(* mode="eval").body), every exception re-raised as ValueError("Invalid    *)
(* expression.").                                                          *)
(*                                                                         *)
(* An expression is a sequence of atoms: one atom per character for        *)
(* digits, punctuation and the blank, one atom per maximal run of letters  *)
(* (a word) and one atom per quoted string literal.  Tokenize and the      *)
(* Parse* operators follow Python 3.11's tokenizer and expression grammar  *)
(* on that alphabet; _eval is translated branch by branch.                 *)
(*                                                                         *)
(* Values carry their Python type.  Integers are tracked exactly up to     *)
(* IntCap; floats are tracked exactly while they are dyadic rationals      *)
(* within IntCap (the double is then the rational), and are "untracked"    *)
(* otherwise.  The sign of a float zero is not tracked.  An operation      *)
(* whose outcome (value or exception) depends on an untracked value ends   *)
(* the evaluation with status "unk": the model does not decide it.         *)
(***************************************************************************)
EXTENDS Integers, Sequences, FiniteSets, TLC

VARIABLES
    expression,         \* the expression of the call (one call of the calculator)
    pc,                 \* "call" before the call, "done" after it, "idle" when none is made
    outcome,            \* what scientific_calculator returned or raised
    invoked,            \* the host routines the call invoked, with their arguments
    reply,              \* what the MCP tool calculate returned or raised
    allowed_names,      \* the dict _ALLOWED_NAMES
    allowed_operators,  \* the keys of the dict _ALLOWED_OPERATORS
    history,            \* the calls made one after another, each with its outcome
    frames,             \* the local variables of the calls that run concurrently
    alone,              \* per concurrent call: its outcome when it runs alone
    query,              \* the query of the last call of dispatch
    answer,             \* what the last call of dispatch returned or raised
    rate_cache,         \* the dict _RATE_CACHE: (from, to) -> (rate, time stored)
    clock,              \* what time.time() returns
    api_key,            \* the environment variable CURRENCY_API_KEY ("" when unset)
    conversions,        \* the calls of convert_currency made so far: each with its
                        \* arguments, the cache before it, whether it sent a request,
                        \* and its outcome
    news_cache,         \* the dict _cache of news.py: (category, region) -> (time, summary)
    fetched,            \* the calls of get_headlines made so far: each with its key, the
                        \* cache before it, whether it sent a request, and what it returned
    expense_rows,       \* the rows of the table expenses, in the order of their ids
    expense_calls,      \* the calls of the expense tools and of ExpenseStorage made so
                        \* far, each with its arguments and what it returned or raised
    calendar,           \* the last call of a calendar tool: the requests it issued and
                        \* what it returned or raised
    spotify,            \* one call of _spotify_request: the token held, its position,
                        \* the requests and refreshes it made, and its response
    parsing,            \* one call of parse_expense_message: the message, now, and
                        \* what it returned or raised
    walk                \* one call of scientific_calculator as a walk of the tree: the
                        \* frames on the stack, the nodes visited, and its outcome

calcvars == <<expression, pc, outcome, invoked, reply>>
tablevars == <<allowed_names, allowed_operators>>
utilvars == <<query, answer, rate_cache, clock, api_key, conversions>>
newsvars == <<news_cache, fetched>>
toolvars == <<expense_rows, expense_calls, calendar, spotify, parsing, walk>>
vars == <<expression, pc, outcome, invoked, reply, allowed_names, allowed_operators,
          history, frames, alone,
          query, answer, rate_cache, clock, api_key, conversions, news_cache, fetched,
          expense_rows, expense_calls, calendar, spotify, parsing, walk>>

\* Bounds of the model.
MaxLen == 3
MaxLit == 3
IntCap == 4096

(***************************************************************************)
(* Values                                                                  *)
(***************************************************************************)
Mk(t, n, d, s) == [t |-> t, n |-> n, d |-> d, s |-> s]

Abs(x) == IF x < 0 THEN -x ELSE x

RECURSIVE GCD(_, _)
GCD(a, b) == IF b = 0 THEN a ELSE GCD(b, a % b)

RECURSIVE IsPow2(_)
IsPow2(d) == IF d = 1 THEN TRUE ELSE IF d % 2 # 0 THEN FALSE ELSE IsPow2(d \div 2)

\* floor(p / q) for q # 0
FloorDiv(p, q) == IF q > 0 THEN p \div q ELSE (-p) \div (-q)

UntrackedInt == Mk("int", 0, 1, "untracked")
UntrackedFloat == Mk("float", 0, 1, "untracked")
UntrackedStr == Mk("str", 0, 1, "untracked")
ComplexV == Mk("complex", 0, 1, "untracked")
NoneV == Mk("NoneType", 0, 1, "")
EllipsisV == Mk("ellipsis", 0, 1, "")
NoValue == Mk("", 0, 1, "")

IntV(n) == IF Abs(n) > IntCap THEN UntrackedInt ELSE Mk("int", n, 1, "")
BoolV(b) == Mk("bool", IF b THEN 1 ELSE 0, 1, "")
StrV(s) == Mk("str", 0, 1, s)
FuncV(name) == Mk("builtin_function_or_method", 0, 1, name)
SymFloat(s) == Mk("float", 0, 1, s)

\* The float p/q (q # 0), in lowest terms.
FloatV(p, q) ==
    LET sn == IF q < 0 THEN -p ELSE p
        sd == Abs(q)
        g == GCD(Abs(sn), sd)
        n == sn \div g
        d == sd \div g
    IN  IF IsPow2(d) /\ Abs(n) <= IntCap /\ d <= IntCap
        THEN Mk("float", n, d, "")
        ELSE UntrackedFloat

IsIntLike(v) == v.t \in {"int", "bool"}
IsReal(v) == v.t \in {"int", "bool", "float"}
Tracked(v) == v.s = ""
\* math.pi, math.e and math.pi / 2: known, positive, not rational.
IsSymbolic(v) == v.t = "float" /\ v.s \in {"pi", "e", "pi/2"}
IsZero(v) == Tracked(v) /\ v.n = 0

\* Results of an operation or an evaluation step.
Ok(v) == [st |-> "ok", v |-> v, err |-> ""]
Err(e) == [st |-> "err", v |-> NoValue, err |-> e]
Unk == [st |-> "unk", v |-> NoValue, err |-> ""]

(***************************************************************************)
(* Python arithmetic on the values (operator.add, sub, mul, truediv, mod,  *)
(* pow and the unary + and -), by operand type as CPython dispatches it.   *)
(***************************************************************************)
RECURSIVE CapPowFrom(_, _, _)
\* acc * b^e for |b| >= 2, or IntCap + 1 (with the sign) once the magnitude passes IntCap.
CapPowFrom(b, e, acc) ==
    IF e = 0 THEN acc
    ELSE IF Abs(acc * b) > IntCap
    THEN (IF (acc < 0) # (b < 0 /\ e % 2 = 1) THEN -(IntCap + 1) ELSE IntCap + 1)
    ELSE CapPowFrom(b, e - 1, acc * b)

\* b^e for e >= 0, or IntCap + 1 (with the sign) once the magnitude passes IntCap.
CapPow(b, e) ==
    IF e = 0 THEN 1
    ELSE IF b = 0 THEN 0
    ELSE IF b = 1 THEN 1
    ELSE IF b = -1 THEN (IF e % 2 = 0 THEN 1 ELSE -1)
    ELSE CapPowFrom(b, e, 1)

RECURSIVE RootFrom(_, _)
RootFrom(n, r) == IF r * r >= n THEN r ELSE RootFrom(n, r + 1)

IsSquare(n) == n >= 0 /\ RootFrom(n, 0) * RootFrom(n, 0) = n

\* An int too large to track may not convert to a float (OverflowError).
HasUntrackedInt(a, b) == (IsIntLike(a) /\ ~Tracked(a)) \/ (IsIntLike(b) /\ ~Tracked(b))

op_add(a, b) ==
    IF IsIntLike(a) /\ IsIntLike(b)
    THEN Ok(IF Tracked(a) /\ Tracked(b) THEN IntV(a.n + b.n) ELSE UntrackedInt)
    ELSE IF IsReal(a) /\ IsReal(b)
    THEN IF HasUntrackedInt(a, b) THEN Unk
         ELSE IF Tracked(a) /\ Tracked(b)
         THEN Ok(FloatV(a.n * b.d + b.n * a.d, a.d * b.d))
         ELSE Ok(UntrackedFloat)
    ELSE IF (a.t = "complex" /\ (IsReal(b) \/ b.t = "complex")) \/ (b.t = "complex" /\ IsReal(a))
    THEN IF HasUntrackedInt(a, b) THEN Unk ELSE Ok(ComplexV)
    ELSE IF a.t = "str" /\ b.t = "str" THEN Ok(UntrackedStr)
    ELSE Err("TypeError")

op_sub(a, b) ==
    IF IsIntLike(a) /\ IsIntLike(b)
    THEN Ok(IF Tracked(a) /\ Tracked(b) THEN IntV(a.n - b.n) ELSE UntrackedInt)
    ELSE IF IsReal(a) /\ IsReal(b)
    THEN IF HasUntrackedInt(a, b) THEN Unk
         ELSE IF Tracked(a) /\ Tracked(b)
         THEN Ok(FloatV(a.n * b.d - b.n * a.d, a.d * b.d))
         ELSE Ok(UntrackedFloat)
    ELSE IF (a.t = "complex" /\ (IsReal(b) \/ b.t = "complex")) \/ (b.t = "complex" /\ IsReal(a))
    THEN IF HasUntrackedInt(a, b) THEN Unk ELSE Ok(ComplexV)
    ELSE Err("TypeError")

op_mul(a, b) ==
    IF IsIntLike(a) /\ IsIntLike(b)
    THEN Ok(IF Tracked(a) /\ Tracked(b) THEN IntV(a.n * b.n) ELSE UntrackedInt)
    ELSE IF IsReal(a) /\ IsReal(b)
    THEN IF HasUntrackedInt(a, b) THEN Unk
         ELSE IF Tracked(a) /\ Tracked(b)
         THEN Ok(FloatV(a.n * b.n, a.d * b.d))
         ELSE Ok(UntrackedFloat)
    ELSE IF (a.t = "complex" /\ (IsReal(b) \/ b.t = "complex")) \/ (b.t = "complex" /\ IsReal(a))
    THEN IF HasUntrackedInt(a, b) THEN Unk ELSE Ok(ComplexV)
    ELSE IF (a.t = "str" /\ IsIntLike(b)) \/ (IsIntLike(a) /\ b.t = "str")
    THEN IF HasUntrackedInt(a, b) THEN Unk ELSE Ok(UntrackedStr)
    ELSE Err("TypeError")

\* A mutant of op_truediv: a zero divisor yields an IEEE special value.
op_truediv_ieee(a, b) ==
    IF IsReal(a) /\ IsReal(b)
    THEN IF HasUntrackedInt(a, b) THEN Unk
         ELSE IF IsZero(b)
         THEN Ok(SymFloat(IF IsZero(a) THEN "nan" ELSE "inf"))
         ELSE IF Tracked(a) /\ Tracked(b) THEN Ok(FloatV(a.n * b.d, a.d * b.n))
         ELSE Ok(UntrackedFloat)
    ELSE Err("TypeError")

op_truediv(a, b) ==
    IF IsReal(a) /\ IsReal(b)
    THEN IF HasUntrackedInt(a, b) THEN Unk
         ELSE IF IsZero(b) THEN Err("ZeroDivisionError")
         ELSE IF Tracked(a) /\ Tracked(b) THEN Ok(FloatV(a.n * b.d, a.d * b.n))
         ELSE IF IsSymbolic(b)
         THEN Ok(UntrackedFloat)
         ELSE IF ~Tracked(b) THEN Unk
         ELSE IF a.s = "pi" /\ b.n = 2 /\ b.d = 1 THEN Ok(SymFloat("pi/2"))
         ELSE Ok(UntrackedFloat)
    ELSE IF (a.t = "complex" /\ (IsReal(b) \/ b.t = "complex")) \/ (b.t = "complex" /\ IsReal(a))
    THEN IF HasUntrackedInt(a, b) THEN Unk
         ELSE IF IsReal(b) /\ IsZero(b) THEN Err("ZeroDivisionError")
         ELSE IF IsReal(b) /\ (Tracked(b) \/ IsSymbolic(b)) THEN Ok(ComplexV)
         ELSE Unk
    ELSE Err("TypeError")

\* a - b * floor(a / b) on tracked reals, b # 0: Python's floored modulo.
FlooredMod(a, b) ==
    LET q == FloorDiv(a.n * b.d, a.d * b.n)
    IN  [n |-> a.n * b.d - b.n * q * a.d, d |-> a.d * b.d]

op_mod(a, b) ==
    IF IsIntLike(a) /\ IsIntLike(b)
    THEN IF IsZero(b) THEN Err("ZeroDivisionError")
         ELSE IF ~Tracked(b) THEN Unk
         ELSE IF ~Tracked(a) THEN Ok(UntrackedInt)
         ELSE Ok(IntV(FlooredMod(a, b).n))
    ELSE IF IsReal(a) /\ IsReal(b)
    THEN IF HasUntrackedInt(a, b) THEN Unk
         ELSE IF IsZero(b) THEN Err("ZeroDivisionError")
         ELSE IF Tracked(a) /\ Tracked(b)
         THEN Ok(FloatV(FlooredMod(a, b).n, FlooredMod(a, b).d))
         ELSE IF IsSymbolic(b) \/ Tracked(b) THEN Ok(UntrackedFloat)
         ELSE Unk
    ELSE IF a.t = "str"
    THEN IF a.s = "'%d'" THEN (IF IsReal(b) THEN Ok(UntrackedStr) ELSE Err("TypeError"))
         ELSE IF a.s = "untracked" THEN Unk
         ELSE Err("TypeError")
    ELSE Err("TypeError")

op_pow(a, b) ==
    IF IsIntLike(a) /\ IsIntLike(b)
    THEN IF ~(Tracked(a) /\ Tracked(b)) THEN Unk
         ELSE IF b.n >= 0 THEN Ok(IntV(CapPow(a.n, b.n)))
         ELSE IF a.n = 0 THEN Err("ZeroDivisionError")
         ELSE Ok(FloatV(1, CapPow(a.n, -b.n)))
    ELSE IF IsReal(a) /\ IsReal(b)
    THEN IF HasUntrackedInt(a, b) THEN Unk
         ELSE IF IsSymbolic(a) /\ (IsSymbolic(b) \/ (Tracked(b) /\ Abs(b.n) <= 64 * b.d))
         THEN Ok(UntrackedFloat)
         ELSE IF IsSymbolic(b) /\ Tracked(a)
         THEN Ok(IF a.n < 0 THEN ComplexV ELSE IF a.n = 0 THEN FloatV(0, 1) ELSE UntrackedFloat)
         ELSE IF ~(Tracked(a) /\ Tracked(b)) THEN Unk
         ELSE IF a.n = 0
         THEN (IF b.n < 0 THEN Err("ZeroDivisionError")
               ELSE Ok(FloatV(IF b.n = 0 THEN 1 ELSE 0, 1)))
         ELSE IF b.d = 1
         THEN LET pn == CapPow(a.n, Abs(b.n))
                  pd == CapPow(a.d, Abs(b.n))
              IN  IF Abs(pn) <= IntCap /\ pd <= IntCap
                  THEN Ok(IF b.n >= 0 THEN FloatV(pn, pd) ELSE FloatV(pd, pn))
                  ELSE IF Abs(b.n) <= 64 THEN Ok(UntrackedFloat)
                  ELSE Unk
         ELSE IF a.n < 0 THEN Ok(ComplexV)
         ELSE IF b.n = 1 /\ b.d = 2 /\ IsSquare(a.n) /\ IsSquare(a.d)
         THEN Ok(FloatV(RootFrom(a.n, 0), RootFrom(a.d, 0)))
         ELSE IF Abs(b.n) <= 64 THEN Ok(UntrackedFloat)
         ELSE Unk
    ELSE IF a.t = "complex" \/ b.t = "complex"
    THEN (IF (IsReal(a) \/ a.t = "complex") /\ (IsReal(b) \/ b.t = "complex")
          THEN Unk ELSE Err("TypeError"))
    ELSE Err("TypeError")

\* _ALLOWED_OPERATORS: the AST operator types the table maps.
_ALLOWED_OPERATORS == {"Add", "Sub", "Mult", "Div", "Pow", "Mod"}

\* _ALLOWED_OPERATORS[type(node.op)](left, right)
ApplyOperator(op, left, right) ==
    CASE op = "Add" -> op_add(left, right)
      [] op = "Sub" -> op_sub(left, right)
      [] op = "Mult" -> op_mul(left, right)
      [] op = "Div" -> op_truediv(left, right)
      [] op = "Pow" -> op_pow(left, right)
      [] op = "Mod" -> op_mod(left, right)

\* operand if the op is UAdd (the operand itself, whatever its type), else -operand
ApplyUnary(op, v) ==
    IF op = "UAdd" THEN Ok(v)
    ELSE IF IsIntLike(v)
    THEN Ok(IF ~Tracked(v) THEN UntrackedInt ELSE IntV(-v.n))
    ELSE IF v.t = "float"
    THEN Ok(IF Tracked(v) THEN FloatV(-v.n, v.d) ELSE UntrackedFloat)
    ELSE IF v.t = "complex" THEN Ok(ComplexV)
    ELSE Err("TypeError")

(***************************************************************************)
(* _ALLOWED_NAMES: the public names of the math module, here pi, e and     *)
(* four of its functions.                                                  *)
(***************************************************************************)
FunctionNames == {"sin", "sqrt", "pow", "floor"}
ConstantNames == {"pi", "e"}

_ALLOWED_NAMES ==
    [k \in FunctionNames \cup ConstantNames |->
        IF k \in ConstantNames THEN SymFloat(k) ELSE FuncV(k)]

\* The argument counts each math routine accepts.
Arity(name) == IF name = "pow" THEN 2 ELSE 1

AsFloat(v) == IF v.t = "float" THEN v ELSE Mk("float", v.n, 1, v.s)

math_sin(x) ==
    IF ~IsReal(x) THEN Err("TypeError")
    ELSE IF IsIntLike(x) /\ ~Tracked(x) THEN Unk
    ELSE IF IsZero(x) THEN Ok(FloatV(0, 1))
    ELSE IF x.s = "pi/2" THEN Ok(FloatV(1, 1))
    ELSE Ok(UntrackedFloat)

math_sqrt(x) ==
    IF ~IsReal(x) THEN Err("TypeError")
    ELSE IF IsSymbolic(x) THEN Ok(UntrackedFloat)
    ELSE IF ~Tracked(x) THEN Unk
    ELSE IF x.n < 0 THEN Err("ValueError")
    ELSE IF IsSquare(x.n) /\ IsSquare(x.d)
    THEN Ok(FloatV(RootFrom(x.n, 0), RootFrom(x.d, 0)))
    ELSE Ok(UntrackedFloat)

math_pow(x, y) ==
    IF ~(IsReal(x) /\ IsReal(y)) THEN Err("TypeError")
    ELSE LET Result(r) ==
                 IF r.st = "err" THEN Err("ValueError")
                 ELSE IF r.st = "ok" /\ r.v.t = "complex" THEN Err("ValueError")
                 ELSE r
         IN  Result(op_pow(AsFloat(x), AsFloat(y)))

math_floor(x) ==
    IF IsIntLike(x) THEN Ok(IF Tracked(x) THEN IntV(x.n) ELSE UntrackedInt)
    ELSE IF x.t # "float" THEN Err("TypeError")
    ELSE IF Tracked(x) THEN Ok(IntV(FloorDiv(x.n, x.d)))
    ELSE IF x.s = "pi" THEN Ok(IntV(3))
    ELSE IF x.s = "e" THEN Ok(IntV(2))
    ELSE IF x.s = "pi/2" THEN Ok(IntV(1))
    ELSE Ok(UntrackedInt)

\* A mutant of HostCall: surplus arguments are dropped instead of refused.
HostCallLenient(name, args) ==
    IF Len(args) < Arity(name) THEN Err("TypeError")
    ELSE CASE name = "sin" -> math_sin(args[1])
           [] name = "sqrt" -> math_sqrt(args[1])
           [] name = "pow" -> math_pow(args[1], args[2])
           [] name = "floor" -> math_floor(args[1])

\* _ALLOWED_NAMES[name](*args) for a function of the table.
HostCall(name, args) ==
    IF Len(args) # Arity(name) THEN Err("TypeError")
    ELSE CASE name = "sin" -> math_sin(args[1])
           [] name = "sqrt" -> math_sqrt(args[1])
           [] name = "pow" -> math_pow(args[1], args[2])
           [] name = "floor" -> math_floor(args[1])

(***************************************************************************)
(* ast.parse(expression, mode="eval"), first half: Python's tokenizer on   *)
(* the atoms of the expression.                                            *)
(***************************************************************************)
Digits == <<"0", "1", "2", "3", "4", "5", "6", "7", "8", "9">>
DigitAtoms == {Digits[i] : i \in 1..Len(Digits)}
DigitVal(a) == (CHOOSE i \in 1..Len(Digits) : Digits[i] = a) - 1

\* The words (maximal runs of letters) an expression may hold.  None starts
\* a numeric suffix (e, j, x, ...), so a word right after a number is an
\* "invalid decimal literal".
Words == {"pi", "sin", "sqrt", "pow", "floor", "foo", "k", "__import__", "True", "None"}
StrAtoms == {"'os'", "'%d'"}
PunctAtoms == {"+", "-", "*", "/", "%", "^", "~", "(", ")", ",", ".", "="}
Atoms == DigitAtoms \cup Words \cup StrAtoms \cup PunctAtoms \cup {" "}

Tok(k, s, v, id) == [k |-> k, s |-> s, v |-> v, id |-> id]

At(a, i) == IF i >= 1 /\ i <= Len(a) THEN a[i] ELSE ""

RECURSIVE DigitsEnd(_, _)
DigitsEnd(a, i) == IF At(a, i) \in DigitAtoms THEN DigitsEnd(a, i + 1) ELSE i

RECURSIVE DigitsValue(_, _, _, _)
\* The value of the digits a[i..j-1] after acc, or IntCap + 1 once it passes IntCap.
DigitsValue(a, i, j, acc) ==
    IF i >= j THEN acc
    ELSE IF acc * 10 + DigitVal(a[i]) > IntCap THEN IntCap + 1
    ELSE DigitsValue(a, i + 1, j, acc * 10 + DigitVal(a[i]))

RECURSIVE WordEnd(_, _)
WordEnd(a, i) == IF At(a, i) \in Words \cup DigitAtoms THEN WordEnd(a, i + 1) ELSE i

\* The number literal starting at a[i]: digits [. digits] or . digits.
NumberAt(a, i) ==
    LET j1 == DigitsEnd(a, i)
        isFloat == At(a, j1) = "."
        j2 == IF isFloat THEN DigitsEnd(a, j1 + 1) ELSE j1
        ip == DigitsValue(a, i, j1, 0)
        fp == DigitsValue(a, j1 + 1, j2, 0)
        scale == CapPow(10, j2 - j1 - 1)
        leadingZero == ~isFloat /\ j1 - i > 1 /\ a[i] = "0" /\ ip # 0
        val == IF ~isFloat THEN IntV(ip)
               ELSE IF ip > IntCap \/ fp > IntCap \/ scale > IntCap THEN UntrackedFloat
               ELSE FloatV(ip * scale + fp, scale)
    IN  [ok |-> ~leadingZero /\ At(a, j2) \notin Words, tok |-> Tok("NUMBER", "", val, <<>>), next |-> j2]

RECURSIVE Lex(_, _, _)
Lex(a, i, acc) ==
    IF i > Len(a) THEN [ok |-> TRUE, toks |-> acc]
    ELSE LET c == a[i]
             n == At(a, i + 1)
         IN  IF c = " " THEN Lex(a, i + 1, acc)
             ELSE IF c \in DigitAtoms \/ (c = "." /\ n \in DigitAtoms)
             THEN LET After(num) ==
                          IF num.ok THEN Lex(a, num.next, Append(acc, num.tok))
                          ELSE [ok |-> FALSE, toks |-> <<>>]
                  IN  After(NumberAt(a, i))
             ELSE IF c \in Words
             THEN LET Word(j, id) ==
                          IF id = <<"True">> THEN Lex(a, j, Append(acc, Tok("KEYWORD", "True", BoolV(TRUE), <<>>)))
                          ELSE IF id = <<"None">> THEN Lex(a, j, Append(acc, Tok("KEYWORD", "None", NoneV, <<>>)))
                          ELSE Lex(a, j, Append(acc, Tok("NAME", "", NoValue, id)))
                  IN  Word(WordEnd(a, i), SubSeq(a, i, WordEnd(a, i) - 1))
             ELSE IF c \in StrAtoms THEN Lex(a, i + 1, Append(acc, Tok("STRING", c, StrV(c), <<>>)))
             ELSE IF c = "." /\ n = "." /\ At(a, i + 2) = "."
             THEN Lex(a, i + 3, Append(acc, Tok("ELLIPSIS", "...", EllipsisV, <<>>)))
             ELSE IF c = "*" /\ n = "*" THEN Lex(a, i + 2, Append(acc, Tok("OP", "**", NoValue, <<>>)))
             ELSE IF c = "/" /\ n = "/" THEN Lex(a, i + 2, Append(acc, Tok("OP", "//", NoValue, <<>>)))
             ELSE IF c = "=" /\ n = "=" THEN Lex(a, i + 2, Append(acc, Tok("OP", "==", NoValue, <<>>)))
             ELSE Lex(a, i + 1, Append(acc, Tok("OP", c, NoValue, <<>>)))

\* The token stream, or a failure: leading whitespace is an "unexpected indent".
Tokenize(a) ==
    IF At(a, 1) = " " THEN [ok |-> FALSE, toks |-> <<>>] ELSE Lex(a, 1, <<>>)

(***************************************************************************)
(* ast.parse(expression, mode="eval"), second half: Python's expression    *)
(* grammar (eval input: expressions, then the end of the input).           *)
(*   expressions: expression (',' expression)* [',']                       *)
(*   comparison:  bitwise_xor ('==' bitwise_xor)*                          *)
(*   bitwise_xor: sum ('^' sum)*                                           *)
(*   sum:         term (('+' | '-') term)*                                 *)
(*   term:        factor (('*' | '/' | '//' | '%') factor)*                *)
(*   factor:      ('+' | '-' | '~') factor | power                         *)
(*   power:       primary ['**' factor]                                    *)
(*   primary:     atom ('.' NAME | '(' [arguments] ')')*                   *)
(*   atom:        NUMBER | STRING+ | NAME | True | None | '...'            *)
(*                | '(' ... ')'  (a group or a tuple)                      *)
(***************************************************************************)
Constant(v) == [kind |-> "Constant", value |-> v]
Name(id) == [kind |-> "Name", id |-> id]
UnaryOp(op, operand) == [kind |-> "UnaryOp", op |-> op, operand |-> operand]
BinOp(left, op, right) == [kind |-> "BinOp", left |-> left, op |-> op, right |-> right]
Call(func, args, keywords) == [kind |-> "Call", func |-> func, args |-> args, keywords |-> keywords]
Attribute(value, attr) == [kind |-> "Attribute", value |-> value, attr |-> attr]
TupleNode(elts) == [kind |-> "Tuple", elts |-> elts]
Compare(left, comparators) == [kind |-> "Compare", left |-> left, comparators |-> comparators]
Starred(value) == [kind |-> "Starred", value |-> value]
Keyword(arg, value) == [arg |-> arg, value |-> value]
NoNode == [kind |-> "none"]

ParseFail == [ok |-> FALSE, node |-> NoNode, pos |-> 0]
Parsed(node, pos) == [ok |-> TRUE, node |-> node, pos |-> pos]

IsOp(t, p, s) == p <= Len(t) /\ t[p].k = "OP" /\ t[p].s = s
IsKind(t, p, k) == p <= Len(t) /\ t[p].k = k
OpAt(t, p) == IF p <= Len(t) /\ t[p].k = "OP" THEN t[p].s ELSE ""

BinOpName(s) ==
    CASE s = "+" -> "Add" [] s = "-" -> "Sub" [] s = "*" -> "Mult" [] s = "/" -> "Div"
      [] s = "%" -> "Mod" [] s = "**" -> "Pow" [] s = "//" -> "FloorDiv" [] s = "^" -> "BitXor"
UnaryOpName(s) == CASE s = "+" -> "UAdd" [] s = "-" -> "USub" [] s = "~" -> "Invert"

RECURSIVE StringsEnd(_, _)
StringsEnd(t, p) == IF IsKind(t, p, "STRING") THEN StringsEnd(t, p + 1) ELSE p

RECURSIVE ParseExpression(_, _), ParseComparisonRest(_, _, _, _), ParseXor(_, _),
          ParseXorRest(_, _, _), ParseSum(_, _), ParseSumRest(_, _, _), ParseTerm(_, _),
          ParseTermRest(_, _, _), ParseFactor(_, _), ParsePower(_, _), ParsePrimary(_, _),
          ParseTrailers(_, _, _), ParseAtom(_, _), ParseTupleItems(_, _, _, _),
          ParseArguments(_, _, _, _, _)


\* atom
ParseAtom(t, p) ==
    IF p > Len(t) THEN ParseFail
    ELSE IF t[p].k \in {"NUMBER", "KEYWORD", "ELLIPSIS"} THEN Parsed(Constant(t[p].v), p + 1)
    ELSE IF t[p].k = "STRING"
    THEN LET After(q) == Parsed(Constant(IF q = p + 1 THEN t[p].v ELSE UntrackedStr), q)
         IN  After(StringsEnd(t, p))
    ELSE IF t[p].k = "NAME" THEN Parsed(Name(t[p].id), p + 1)
    ELSE IF IsOp(t, p, "(")
    THEN IF IsOp(t, p + 1, ")") THEN Parsed(TupleNode(<<>>), p + 2)
         ELSE ParseTupleItems(t, p + 1, <<>>, FALSE)
    ELSE ParseFail

\* The items after '(' : a group (one unstarred item, no comma) or a tuple.
ParseTupleItems(t, p, elts, comma) ==
    IF IsOp(t, p, ")")
    THEN IF comma THEN Parsed(TupleNode(elts), p + 1)
         ELSE IF Len(elts) = 1 /\ elts[1].kind # "Starred" THEN Parsed(elts[1], p + 1)
         ELSE ParseFail
    ELSE LET Item(starred, item, elt) ==
                 IF ~item.ok THEN ParseFail
                 ELSE IF IsOp(t, item.pos, ",")
                 THEN ParseTupleItems(t, item.pos + 1, Append(elts, elt), TRUE)
                 ELSE IF IsOp(t, item.pos, ")")
                 THEN ParseTupleItems(t, item.pos, Append(elts, elt), comma)
                 ELSE ParseFail
             Starring(starred, item) ==
                 Item(starred, item, IF starred THEN Starred(item.node) ELSE item.node)
         IN  IF IsOp(t, p, "*") THEN Starring(TRUE, ParseXor(t, p + 1))
             ELSE Starring(FALSE, ParseExpression(t, p))

\* arguments, from the token after '(' or after a comma.  phase 0: positional,
\* 1: a keyword argument was seen, 2: a '**' unpacking was seen.
ParseArguments(t, p, args, keywords, phase) ==
    IF IsOp(t, p, ")")
    THEN [ok |-> TRUE, args |-> args, keywords |-> keywords, pos |-> p + 1]
    ELSE LET fail == [ok |-> FALSE, args |-> <<>>, keywords |-> <<>>, pos |-> 0]
             Rest(item, args2, kws2, phase2) ==
                 IF IsOp(t, item.pos, ",")
                 THEN (IF IsOp(t, item.pos + 1, ")")
                       THEN [ok |-> TRUE, args |-> args2, keywords |-> kws2, pos |-> item.pos + 2]
                       ELSE ParseArguments(t, item.pos + 1, args2, kws2, phase2))
                 ELSE IF IsOp(t, item.pos, ")")
                 THEN [ok |-> TRUE, args |-> args2, keywords |-> kws2, pos |-> item.pos + 1]
                 ELSE fail
             Argument(isDStar, isStar, isKw, item) ==
                 IF ~item.ok THEN fail
                 ELSE IF isStar /\ phase = 2 THEN fail
                 ELSE IF ~isStar /\ ~isDStar /\ ~isKw /\ phase > 0 THEN fail
                 ELSE Rest(item,
                           IF isStar THEN Append(args, Starred(item.node))
                           ELSE IF isDStar \/ isKw THEN args
                           ELSE Append(args, item.node),
                           IF isDStar THEN Append(keywords, Keyword(<<>>, item.node))
                           ELSE IF isKw THEN Append(keywords, Keyword(t[p].id, item.node))
                           ELSE keywords,
                           IF isDStar THEN 2 ELSE IF isKw /\ phase < 1 THEN 1 ELSE phase)
             Kind(isDStar, isStar, isKw) ==
                 Argument(isDStar, isStar, isKw,
                          ParseExpression(t, IF isDStar \/ isStar THEN p + 1
                                             ELSE IF isKw THEN p + 2 ELSE p))
         IN  Kind(IsOp(t, p, "**"), IsOp(t, p, "*"),
                  IsKind(t, p, "NAME") /\ IsOp(t, p + 1, "="))

\* The trailers of a primary: attribute references and calls.
ParseTrailers(t, node, p) ==
    IF IsOp(t, p, ".")
    THEN IF IsKind(t, p + 1, "NAME")
         THEN ParseTrailers(t, Attribute(node, t[p + 1].id), p + 2)
         ELSE ParseFail
    ELSE IF IsOp(t, p, "(")
    THEN LET After(a) ==
                 IF a.ok THEN ParseTrailers(t, Call(node, a.args, a.keywords), a.pos)
                 ELSE ParseFail
         IN  After(ParseArguments(t, p + 1, <<>>, <<>>, 0))
    ELSE Parsed(node, p)

ParsePrimary(t, p) ==
    LET After(a) == IF a.ok THEN ParseTrailers(t, a.node, a.pos) ELSE ParseFail
    IN  After(ParseAtom(t, p))

\* A mutant of ParsePower: ** associates to the left.
ParsePowerLeftAssoc(t, p) ==
    LET Exponent(l, r) ==
            IF ~r.ok THEN ParseFail
            ELSE IF r.node.kind = "BinOp" /\ r.node.op = "Pow"
            THEN Parsed(BinOp(BinOp(l.node, "Pow", r.node.left), "Pow", r.node.right), r.pos)
            ELSE Parsed(BinOp(l.node, "Pow", r.node), r.pos)
        Base(l) ==
            IF ~l.ok THEN ParseFail
            ELSE IF ~IsOp(t, l.pos, "**") THEN l
            ELSE Exponent(l, ParseFactor(t, l.pos + 1))
    IN  Base(ParsePrimary(t, p))

\* power: primary ['**' factor]
ParsePower(t, p) ==
    LET Exponent(l, r) ==
            IF ~r.ok THEN ParseFail
            ELSE Parsed(BinOp(l.node, "Pow", r.node), r.pos)
        Base(l) ==
            IF ~l.ok THEN ParseFail
            ELSE IF ~IsOp(t, l.pos, "**") THEN l
            ELSE Exponent(l, ParseFactor(t, l.pos + 1))
    IN  Base(ParsePrimary(t, p))

\* A mutant of ParseFactor: a sign binds to the base of a power, not to the power.
ParseFactorSignFirst(t, p) ==
    IF OpAt(t, p) \in {"+", "-", "~"}
    THEN LET Signed(op, f) ==
                 IF ~f.ok THEN ParseFail
                 ELSE IF f.node.kind = "BinOp" /\ f.node.op = "Pow"
                 THEN Parsed(BinOp(UnaryOp(op, f.node.left), "Pow", f.node.right), f.pos)
                 ELSE Parsed(UnaryOp(op, f.node), f.pos)
         IN  Signed(UnaryOpName(t[p].s), ParseFactor(t, p + 1))
    ELSE ParsePower(t, p)

\* factor: ('+' | '-' | '~') factor | power
ParseFactor(t, p) ==
    IF OpAt(t, p) \in {"+", "-", "~"}
    THEN LET Operand(f) ==
                 IF f.ok THEN Parsed(UnaryOp(UnaryOpName(t[p].s), f.node), f.pos) ELSE ParseFail
         IN  Operand(ParseFactor(t, p + 1))
    ELSE ParsePower(t, p)

\* The operands from position p on: the first one when left is NoNode, else
\* the ones that follow an operator.
ParseTermRest(t, left, p) ==
    IF left = NoNode
    THEN LET Left(l) == IF l.ok THEN ParseTermRest(t, l.node, l.pos) ELSE ParseFail
         IN  Left(ParseFactor(t, p))
    ELSE IF OpAt(t, p) \in {"*", "/", "//", "%"}
    THEN LET Right(r) ==
                 IF r.ok THEN ParseTermRest(t, BinOp(left, BinOpName(t[p].s), r.node), r.pos)
                 ELSE ParseFail
         IN  Right(ParseFactor(t, p + 1))
    ELSE Parsed(left, p)

ParseTerm(t, p) == ParseTermRest(t, NoNode, p)

\* The operands from position p on: the first one when left is NoNode, else
\* the ones that follow an operator.
ParseSumRest(t, left, p) ==
    IF left = NoNode
    THEN LET Left(l) == IF l.ok THEN ParseSumRest(t, l.node, l.pos) ELSE ParseFail
         IN  Left(ParseTerm(t, p))
    ELSE IF OpAt(t, p) \in {"+", "-"}
    THEN LET Right(r) ==
                 IF r.ok THEN ParseSumRest(t, BinOp(left, BinOpName(t[p].s), r.node), r.pos)
                 ELSE ParseFail
         IN  Right(ParseTerm(t, p + 1))
    ELSE Parsed(left, p)

ParseSum(t, p) == ParseSumRest(t, NoNode, p)

\* The operands from position p on: the first one when left is NoNode, else
\* the ones that follow an operator.
ParseXorRest(t, left, p) ==
    IF left = NoNode
    THEN LET Left(l) == IF l.ok THEN ParseXorRest(t, l.node, l.pos) ELSE ParseFail
         IN  Left(ParseSum(t, p))
    ELSE IF IsOp(t, p, "^")
    THEN LET Right(r) ==
                 IF r.ok THEN ParseXorRest(t, BinOp(left, "BitXor", r.node), r.pos)
                 ELSE ParseFail
         IN  Right(ParseSum(t, p + 1))
    ELSE Parsed(left, p)

ParseXor(t, p) == ParseXorRest(t, NoNode, p)

\* The operands from position p on: the first one when left is NoNode, else
\* the ones that follow an operator.
ParseComparisonRest(t, left, comparators, p) ==
    IF left = NoNode \/ IsOp(t, p, "==")
    THEN LET Operand(r) ==
                 IF ~r.ok THEN ParseFail
                 ELSE IF left = NoNode THEN ParseComparisonRest(t, r.node, <<>>, r.pos)
                 ELSE ParseComparisonRest(t, left, Append(comparators, r.node), r.pos)
         IN  Operand(ParseXor(t, IF left = NoNode THEN p ELSE p + 1))
    ELSE Parsed(IF Len(comparators) = 0 THEN left ELSE Compare(left, comparators), p)

\* expression (no lambda, conditional, boolean operator or named expression
\* can be written with the atoms)
ParseExpression(t, p) == ParseComparisonRest(t, NoNode, <<>>, p)

RECURSIVE ParseExpressionsRest(_, _, _)
\* The expressions from position p on, after the ones in elts: a single
\* expression is itself, several (or one and a comma) make a tuple.
ParseExpressionsRest(t, elts, p) ==
    IF p > Len(t) /\ Len(elts) > 0 THEN Parsed(TupleNode(elts), p)
    ELSE LET Item(e) ==
                 IF ~e.ok THEN ParseFail
                 ELSE IF e.pos > Len(t)
                 THEN (IF Len(elts) = 0 THEN e
                       ELSE Parsed(TupleNode(Append(elts, e.node)), e.pos))
                 ELSE IF IsOp(t, e.pos, ",") THEN ParseExpressionsRest(t, Append(elts, e.node), e.pos + 1)
                 ELSE ParseFail
         IN  Item(ParseExpression(t, p))

\* eval input: expressions, then the end of the input
ParseExpressions(t) == ParseExpressionsRest(t, <<>>, 1)

\* ast.parse(expression, mode="eval"): the body, or a SyntaxError.
ast_parse(a) ==
    LET Body(lexed) == IF lexed.ok THEN ParseExpressions(lexed.toks) ELSE ParseFail
    IN  Body(Tokenize(a))

(***************************************************************************)
(* _eval and scientific_calculator                                         *)
(***************************************************************************)
InTable(id) == Len(id) = 1 /\ id[1] \in DOMAIN allowed_names

\* type(node.op) in _ALLOWED_OPERATORS
OperatorAllowed(op) == op \in allowed_operators

\* isinstance(node.func, ast.Name) and node.func.id in _ALLOWED_NAMES
CallTargetAllowed(func) == func.kind = "Name" /\ InTable(func.id)

\* isinstance(node, ast.Name) and node.id in _ALLOWED_NAMES
NameAllowed(node) == node.kind = "Name" /\ InTable(node.id)

RECURSIVE Reverse(_)
Reverse(q) == IF Len(q) = 0 THEN <<>> ELSE Append(Reverse(Tail(q)), Head(q))

\* A mutant of CallArguments: the arguments are taken last to first.
CallArgumentsReversed(node) == Reverse(node.args)

\* The expressions a call passes to the routine: node.args (node.keywords is
\* never read).
CallArguments(node) == node.args

Step(st, v, err, log) == [st |-> st, v |-> v, err |-> err, log |-> log]
Raise(err, log) == Step("err", NoValue, err, log)
WithLog(r, log) == Step(r.st, r.v, r.err, log)

\* The call _ALLOWED_NAMES[name](*args): a table value that is no function
\* cannot be called; a function is invoked, which the log records.
Invoke(name, args, log) ==
    LET Target(f) ==
            IF f.t # "builtin_function_or_method" THEN Raise("TypeError", log)
            ELSE WithLog(HostCall(f.s, args), Append(log, [fn |-> f.s, args |-> args]))
    IN  Target(allowed_names[name])

RECURSIVE _eval(_, _), EvalArgs(_, _, _, _)

\* A mutant of EvalArgs: the arguments after one that failed are evaluated too.
RECURSIVE EvalArgsKeepGoing(_, _, _, _)
EvalArgsKeepGoing(args, i, vals, log) ==
    IF i > Len(args) THEN [st |-> "ok", vals |-> vals, err |-> "", log |-> log]
    ELSE LET Rest(r, rest) ==
                 IF r.st # "ok" \/ rest.st # "ok"
                 THEN [st |-> (IF r.st # "ok" THEN r.st ELSE rest.st), vals |-> <<>>,
                       err |-> (IF r.st # "ok" THEN r.err ELSE rest.err), log |-> rest.log]
                 ELSE rest
             Arg(r) == Rest(r, EvalArgsKeepGoing(args, i + 1, Append(vals, r.v), r.log))
         IN  Arg(_eval(args[i], log))

\* [_eval(arg) for arg in node.args]: left to right, stopping at the first failure.
EvalArgs(args, i, vals, log) ==
    IF i > Len(args) THEN [st |-> "ok", vals |-> vals, err |-> "", log |-> log]
    ELSE LET Arg(r) ==
                 IF r.st # "ok" THEN [st |-> r.st, vals |-> <<>>, err |-> r.err, log |-> r.log]
                 ELSE EvalArgs(args, i + 1, Append(vals, r.v), r.log)
         IN  Arg(_eval(args[i], log))

\* _eval(node), with the log of the routines invoked so far.
_eval(node, log) ==
    IF node.kind = "Constant" THEN Step("ok", node.value, "", log)
    ELSE IF node.kind = "UnaryOp" /\ node.op \in {"UAdd", "USub"}
    THEN LET Unary(operand) ==
                 IF operand.st # "ok" THEN operand
                 ELSE WithLog(ApplyUnary(node.op, operand.v), operand.log)
         IN  Unary(_eval(node.operand, log))
    ELSE IF node.kind = "BinOp"
    THEN IF ~OperatorAllowed(node.op) THEN Raise("ValueError: Unsupported operator.", log)
         ELSE LET Right(left, right) ==
                      IF right.st # "ok" THEN right
                      ELSE WithLog(ApplyOperator(node.op, left.v, right.v), right.log)
                  Left(left) ==
                      IF left.st # "ok" THEN left
                      ELSE Right(left, _eval(node.right, left.log))
              IN  Left(_eval(node.left, log))
    ELSE IF node.kind = "Call"
    THEN IF ~CallTargetAllowed(node.func) THEN Raise("ValueError: Function not allowed.", log)
         ELSE LET Apply(args) ==
                      IF args.st # "ok" THEN Step(args.st, NoValue, args.err, args.log)
                      ELSE Invoke(node.func.id[1], args.vals, args.log)
              IN  Apply(EvalArgs(CallArguments(node), 1, <<>>, log))
    ELSE IF NameAllowed(node) THEN Step("ok", allowed_names[node.id[1]], "", log)
    ELSE Raise("ValueError: Invalid expression.", log)

NoOutcome == [kind |-> "none", value |-> NoValue, exc |-> "", msg |-> "", cause |-> ""]
Returned(v) == [kind |-> "returned", value |-> v, exc |-> "", msg |-> "", cause |-> ""]
Raised(exc, msg, cause) == [kind |-> "raised", value |-> NoValue, exc |-> exc, msg |-> msg, cause |-> cause]
\* The model does not decide the call (see the note on untracked values).
Undecided == [kind |-> "undecided", value |-> NoValue, exc |-> "", msg |-> "", cause |-> ""]

\* A mutant of ReRaise: the exception leaves the call as it was raised.
ReRaiseUnwrapped(cause) == Raised(cause, "", "")

\* except Exception as exc: raise ValueError("Invalid expression.") from exc
ReRaise(cause) == Raised("ValueError", "Invalid expression.", cause)

\* scientific_calculator(expression): the outcome and the routines invoked.
scientific_calculator(a) ==
    LET Evaluated(r) ==
            IF r.st = "ok" THEN [outcome |-> Returned(r.v), log |-> r.log]
            ELSE IF r.st = "err" THEN [outcome |-> ReRaise(r.err), log |-> r.log]
            ELSE [outcome |-> Undecided, log |-> r.log]
        Parse(node) ==
            IF ~node.ok THEN [outcome |-> ReRaise("SyntaxError"), log |-> <<>>]
            ELSE Evaluated(_eval(node.node, <<>>))
    IN  Parse(ast_parse(a))

(***************************************************************************)
(* The expressions the calls are made with.                                *)
(***************************************************************************)
\* Every sequence of at most MaxLen atoms over ShortAtoms.
ShortAtoms == {"2", "0", ".", "+", "-", "*", "/", "%", "^", "(", ")", ",", " ", "pi", "sin"}
ShortInputs == UNION {[1..n -> ShortAtoms] : n \in 0..MaxLen}

Lit(i) == <<Digits[i + 1]>>
Literals == {Lit(i) : i \in 0..MaxLit}
Operands == Literals \cup {<<"-">> \o x : x \in Literals}
            \cup {<<"2", ".", "5">>, <<"-", "2", ".", "5">>, <<"pi">>, <<"'%d'">>, <<"'os'">>,
                  <<"True">>, <<"None">>, <<"sin">>}
BinaryTexts == {<<"+">>, <<"-">>, <<"*">>, <<"/">>, <<"%">>, <<"*", "*">>, <<"/", "/">>, <<"^">>}

\* x op y
BinaryInputs == {x \o o \o y : x \in Operands, o \in BinaryTexts, y \in Operands}
\* x op y op z
ChainInputs ==
    {x \o o1 \o y \o o2 \o z : x \in Literals, y \in Literals, z \in Literals,
                               o1 \in BinaryTexts, o2 \in BinaryTexts}
\* u x op y
UnaryInputs ==
    {u \o x \o o \o y : u \in {<<"-">>, <<"+">>, <<"~">>}, x \in Literals, o \in BinaryTexts,
                        y \in Literals}

CallTargets == {<<"sin">>, <<"sqrt">>, <<"pow">>, <<"floor">>, <<"pi">>, <<"foo">>,
                <<"__import__">>, <<"pi", ".", "sin">>, <<"sin", "(", "0", ")">>}
CallOperands == Literals \cup {<<"4">>, <<"-", "2">>, <<"2", ".", "5">>, <<"pi">>, <<"pi", "/", "2">>,
                               <<"'os'">>, <<"foo">>, <<"sin", "(", "0", ")">>}
KeywordArgs == {<<"k", "=", "foo">>, <<"k", "=", "2">>, <<"*", "*", "foo">>,
                <<"k", "=", "__import__", "(", "'os'", ")">>}
\* f(), f(x), f(x, y), and each with a keyword argument after it
CallInputs ==
    LET plain == {<<>>} \cup CallOperands
                 \cup {x \o <<",">> \o y : x \in CallOperands, y \in CallOperands}
        withKw == {(IF p = <<>> THEN <<>> ELSE p \o <<",">>) \o k :
                      p \in {<<>>} \cup CallOperands, k \in KeywordArgs}
    IN  {f \o <<"(">> \o p \o <<")">> : f \in CallTargets, p \in plain \cup withKw}

\* The expressions the specification and the tests name, and malformed ones.
SampleInputs ==
    { <<"sin", "(", "pi", " ", "/", " ", "2", ")", " ", "+", " ", "2", "*", "*", "3">>,
      <<"sin", "(", "pi", "/", "2", ")", "+", "2", "*", "*", "3">>,
      <<"2", " ", "+">>,
      <<"__import__", "(", "'os'", ")">>,
      <<"sqrt", "(", "4", ",", " ", "k", "=", "foo", ")">>,
      <<"sqrt", "(", "4", ",", " ", "5", ")">>,
      <<"2", "^", "3", "^", "2">>,
      <<"2", "*", "*", "3", "*", "*", "2">>,
      <<"1", "0", " ", "%", " ", "3">>,
      <<"2", "*", "*", "3">>,
      <<"-", "7", " ", "%", " ", "3">>,
      <<"1", ".", "2", ".", "3">>,
      <<"1", ".", ".", "2">>,
      <<"(", "2", "+", "3">>,
      <<"2", "+", "3", ")">>,
      <<"(", "(", "2", ")">>,
      <<"2", " ", "3">>,
      <<"2", "+", "3", " ", "4">>,
      <<"sin", "(", "0", ")", " ", "2">>,
      <<>>,
      <<"'os'">>,
      <<"pow", "(", "2", ",", "3", ")">>,
      <<"floor", "(", "2", ".", "5", ")">>,
      <<"-", "2", "*", "*", "2">>,
      <<"(", "-", "8", ")", "*", "*", "0", ".", "5">>,
      <<"2", " ", "*", " ", "*", " ", "3">>,
      <<"sqrt", "(", "4", ",", " ", "k", "=", "2", "/", "/", "3", ")">>,
      <<"sin", "(", "0", ")", "/", "/", "2">>,
      <<"2", "^", "sin", "(", "0", ")">> }

Inputs == ShortInputs \cup BinaryInputs \cup ChainInputs \cup UnaryInputs \cup CallInputs
          \cup SampleInputs

(***************************************************************************)
(* One call of scientific_calculator on an expression.                     *)
(***************************************************************************)
NoReply == [kind |-> "none", value |-> NoValue, exc |-> "", code |-> "", message |-> ""]

\* A mutant of calculate: a failure of the evaluation leaves the tool as it is.
calculate_unhandled(a) ==
    LET Result(r) ==
            [reply |-> [kind |-> r.outcome.kind, value |-> r.outcome.value,
                        exc |-> r.outcome.exc, code |-> "", message |-> r.outcome.msg],
             call |-> r]
    IN  Result(scientific_calculator(a))

\* The MCP tool calculate(expression): the value of scientific_calculator, or
\* McpError(ErrorData(code=INVALID_PARAMS, message=str(exc))) for a ValueError;
\* any other exception is not caught.  With the reply, the call of
\* scientific_calculator the tool made.
calculate(a) ==
    LET Result(r) ==
            [reply |->
                IF r.outcome.kind = "raised" /\ r.outcome.exc = "ValueError"
                THEN [kind |-> "raised", value |-> NoValue, exc |-> "McpError",
                      code |-> "INVALID_PARAMS", message |-> r.outcome.msg]
                ELSE [kind |-> r.outcome.kind, value |-> r.outcome.value,
                      exc |-> r.outcome.exc, code |-> "", message |-> r.outcome.msg],
             call |-> r]
    IN  Result(scientific_calculator(a))

\* A mutant of NamesAfter: a call removes the entry e from the table.
NamesAfterShrunk(names) == [k \in DOMAIN names \ {"e"} |-> names[k]]

\* A mutant of NamesAfter: a call rebinds pi in the table.
NamesAfterRebound(names) == [names EXCEPT !["pi"] = IntV(3)]

\* The tables as a call leaves them: no statement of scientific_calculator or
\* _eval assigns to a table or changes an entry.
NamesAfter(names) == names
OperatorsAfter(operators) == operators

TablesInitial ==
    /\ allowed_names = _ALLOWED_NAMES
    /\ allowed_operators = _ALLOWED_OPERATORS
TablesKept ==
    /\ allowed_names' = NamesAfter(allowed_names)
    /\ allowed_operators' = OperatorsAfter(allowed_operators)

NoCall ==
    /\ expression = <<>>
    /\ pc = "idle"
    /\ outcome = NoOutcome
    /\ invoked = <<>>
    /\ reply = NoReply
NoSession == history = <<>>
NoThreads == frames = <<>> /\ alone = <<>>

\* A dict without entries.
EmptyDict == [k \in {} |-> NoValue]

\* The command did not call its utility.
NotCalled == [kind |-> "none", value |-> NoValue, exc |-> "", msg |-> <<>>]

NoAnswer == [kind |-> "none", text |-> <<>>, exc |-> "", gave |-> NotCalled]

\* No call of dispatch or convert_currency is made.
NoUtilities ==
    /\ query = <<>>
    /\ answer = NoAnswer
    /\ rate_cache = EmptyDict
    /\ clock = 0
    /\ api_key = ""
    /\ conversions = <<>>

\* No call of get_headlines is made.
NoNews == news_cache = EmptyDict /\ fetched = <<>>

\* Nothing is made of the kind.
Idle == [made |-> FALSE]

NoExpenses == expense_rows = <<>> /\ expense_calls = <<>>
NoCalendar == calendar = Idle
NoSpotify == spotify = Idle
NoParsing == parsing = Idle
NoWalk == walk = Idle

\* No call of the expense, calendar or Spotify tools, of parse_expense_message
\* or of the walk is made.
NoTools == NoExpenses /\ NoCalendar /\ NoSpotify /\ NoParsing /\ NoWalk

Init ==
    /\ expression \in Inputs
    /\ pc = "call"
    /\ outcome = NoOutcome
    /\ invoked = <<>>
    /\ reply = NoReply
    /\ TablesInitial
    /\ NoSession
    /\ NoThreads
    /\ NoUtilities
    /\ NoNews
    /\ NoTools

\* A direct call of scientific_calculator(expression).
Calculate ==
    /\ pc = "call"
    /\ LET Result(r) ==
               /\ outcome' = r.outcome
               /\ invoked' = r.log
       IN  Result(scientific_calculator(expression))
    /\ pc' = "done"
    /\ TablesKept
    /\ UNCHANGED <<expression, reply, history, frames, alone, utilvars, newsvars, toolvars>>

\* A call of the MCP tool calculate(expression), which calls scientific_calculator.
CallTool ==
    /\ pc = "call"
    /\ LET Result(c) ==
               /\ reply' = c.reply
               /\ outcome' = c.call.outcome
               /\ invoked' = c.call.log
       IN  Result(calculate(expression))
    /\ pc' = "done"
    /\ TablesKept
    /\ UNCHANGED <<expression, history, frames, alone, utilvars, newsvars, toolvars>>

Next == Calculate \/ CallTool

Spec == Init /\ [][Next]_vars

(***************************************************************************)
(* Calls of scientific_calculator one after another in one process.        *)
(***************************************************************************)
MaxCalls == 3

SessionInputs ==
    { <<"sin", "(", "0", ")">>,
      <<"pi">>,
      <<"2", "*", "*", "3">>,
      <<"2", " ", "+">>,
      <<"foo">>,
      <<"2", "/", "0">>,
      <<"sqrt", "(", "4", ",", " ", "5", ")">>,
      <<"pi", "(", "2", ")">> }

SessionInit ==
    /\ NoCall
    /\ TablesInitial
    /\ history = <<>>
    /\ NoThreads
    /\ NoUtilities
    /\ NoNews
    /\ NoTools

Evaluate(e) ==
    /\ Len(history) < MaxCalls
    /\ history' = Append(history, [expression |-> e,
                                   outcome |-> scientific_calculator(e).outcome])
    /\ TablesKept
    /\ UNCHANGED <<calcvars, frames, alone, utilvars, newsvars, toolvars>>

SessionNext == \E e \in SessionInputs : Evaluate(e)

SpecSession == SessionInit /\ [][SessionNext]_vars

(***************************************************************************)
(* Calls of scientific_calculator that run concurrently.  A call takes two *)
(* steps, the statements of its try block: node = ast.parse(...), then     *)
(* return _eval(node.body); the steps of the calls interleave in any order.*)
(***************************************************************************)
MaxThreads == 2

Threads == 1..MaxThreads

ThreadInputs ==
    { <<"sin", "(", "0", ")">>,
      <<"pi">>,
      <<"2", "*", "*", "3">>,
      <<"2", " ", "+">>,
      <<"foo">>,
      <<"2", "/", "0">> }

\* A mutant of Frame: every call keeps its locals in the frame of call 1.
FrameShared(t) == 1

\* The frame that holds the locals of call t: its own.
Frame(t) == t

\* _eval(node.body) on the parsed expression, and what the call returns or raises.
EvalBody(parsed) ==
    IF ~parsed.ok THEN ReRaise("SyntaxError")
    ELSE LET Result(r) ==
                 IF r.st = "ok" THEN Returned(r.v)
                 ELSE IF r.st = "err" THEN ReRaise(r.err)
                 ELSE Undecided
         IN  Result(_eval(parsed.node, <<>>))

ThreadsInit ==
    /\ NoCall
    /\ TablesInitial
    /\ NoSession
    /\ frames \in [Threads -> [expression : ThreadInputs, pc : {"call"}, node : {ParseFail},
                                outcome : {NoOutcome}]]
    /\ alone = [t \in Threads |-> scientific_calculator(frames[t].expression).outcome]
    /\ NoUtilities
    /\ NoNews
    /\ NoTools

\* node = ast.parse(expression, mode="eval")
Parse(t) ==
    /\ frames[t].pc = "call"
    /\ frames' = [frames EXCEPT ![Frame(t)].node = ast_parse(frames[t].expression),
                                ![t].pc = "parsed"]
    /\ TablesKept
    /\ UNCHANGED <<calcvars, history, alone, utilvars, newsvars, toolvars>>

\* return _eval(node.body), or raise ValueError("Invalid expression.")
Eval(t) ==
    /\ frames[t].pc = "parsed"
    /\ frames' = [frames EXCEPT ![t].outcome = EvalBody(frames[Frame(t)].node),
                                ![t].pc = "done"]
    /\ TablesKept
    /\ UNCHANGED <<calcvars, history, alone, utilvars, newsvars, toolvars>>

ThreadsNext == \E t \in Threads : Parse(t) \/ Eval(t)

SpecThreads == ThreadsInit /\ [][ThreadsNext]_vars

(***************************************************************************)
(* The utilities behind dispatch.  A query is a sequence of atoms, " " the *)
(* whitespace among them; a word is a non-empty sequence of atoms without  *)
(* whitespace.  A text is a sequence of parts: literal strings and         *)
(* formatted values.                                                       *)
(***************************************************************************)
Part(fmt, v) == [fmt |-> fmt, v |-> v]
Txt(s) == Part("", StrV(s))
Str(v) == Part("str", v)
Repr(w) == Part("repr", StrV(w))

\* The word "1" followed by 400 zeros: an int that no float can hold.
ManyDigits == "10000000000000000000000000000000000000000000000000000000000000000000000000000000000000000000000000000000000000000000000000000000000000000000000000000000000000000000000000000000000000000000000000000000000000000000000000000000000000000000000000000000000000000000000000000000000000000000000000000000000000000000000000000000000000000000000000000000000000000000000000000000000000000000000000000000000000000"

HugeInt == Mk("int", 0, 1, "huge")

\* str.lower(), str.upper() and str.title() on the words that have letters.
Cased ==
    { [lower |-> "usd", upper |-> "USD", title |-> "Usd"],
      [lower |-> "eur", upper |-> "EUR", title |-> "Eur"],
      [lower |-> "gbp", upper |-> "GBP", title |-> "Gbp"],
      [lower |-> "m", upper |-> "M", title |-> "M"],
      [lower |-> "ft", upper |-> "FT", title |-> "Ft"],
      [lower |-> "kg", upper |-> "KG", title |-> "Kg"],
      [lower |-> "c", upper |-> "C", title |-> "C"],
      [lower |-> "f", upper |-> "F", title |-> "F"],
      [lower |-> "london", upper |-> "LONDON", title |-> "London"],
      [lower |-> "new", upper |-> "NEW", title |-> "New"],
      [lower |-> "york", upper |-> "YORK", title |-> "York"],
      [lower |-> "mars", upper |-> "MARS", title |-> "Mars"],
      [lower |-> "split", upper |-> "SPLIT", title |-> "Split"],
      [lower |-> "calc", upper |-> "CALC", title |-> "Calc"],
      [lower |-> "world", upper |-> "WORLD", title |-> "World"],
      [lower |-> "us", upper |-> "US", title |-> "Us"] }

Spellings(w) == { c \in Cased : w \in {c.lower, c.upper, c.title} }

lower(w) == IF Spellings(w) = {} THEN w ELSE (CHOOSE c \in Spellings(w) : TRUE).lower
upper(w) == IF Spellings(w) = {} THEN w ELSE (CHOOSE c \in Spellings(w) : TRUE).upper
title(w) == IF Spellings(w) = {} THEN w ELSE (CHOOSE c \in Spellings(w) : TRUE).title

\* What a utility returned or raised.
Gave(v) == [kind |-> "returned", value |-> v, exc |-> "", msg |-> <<>>]
Threw(exc, msg) == [kind |-> "raised", value |-> NoValue, exc |-> exc, msg |-> msg]
Unknown == [kind |-> "undecided", value |-> NoValue, exc |-> "", msg |-> <<>>]

\* The outcome of a chain of arithmetic: its value, or the exception it raised.
Computed(r) ==
    IF r.st = "ok" THEN Gave(r.v)
    ELSE IF r.st = "err" THEN Threw(r.err, <<>>)
    ELSE Unknown

\* The decimal words the queries are made of, and the numbers they spell.
Numerals ==
    { [word |-> "0", n |-> 0], [word |-> "2", n |-> 2], [word |-> "4", n |-> 4],
      [word |-> "10", n |-> 10], [word |-> "100", n |-> 100],
      [word |-> "-1", n |-> -1], [word |-> "-5", n |-> -5] }

Spelled(w) == (CHOOSE x \in Numerals : x.word = w).n

\* float(word), on the words the queries are made of.
float(w) ==
    IF \E x \in Numerals : x.word = w THEN Gave(FloatV(Spelled(w), 1))
    ELSE IF w = "2.5" THEN Gave(FloatV(5, 2))
    ELSE IF w = ManyDigits THEN Gave(SymFloat("inf"))
    ELSE Threw("ValueError", <<Txt("could not convert string to float: "), Repr(w)>>)

\* int(word), on the words the queries are made of.
int(w) ==
    IF \E x \in Numerals : x.word = w THEN Gave(IntV(Spelled(w)))
    ELSE IF w = ManyDigits THEN Gave(HugeInt)
    ELSE Threw("ValueError", <<Txt("invalid literal for int() with base 10: "), Repr(w)>>)

\* v < 0 for an int or a float.
Negative(v) == Tracked(v) /\ v.n < 0

\* round(100 * p / q) to the nearest integer, ties to even (q > 0).
RoundHalfEven(p, q) ==
    LET f == FloorDiv(100 * p, q)
        r == 100 * p - f * q
    IN  IF 2 * r < q THEN f
        ELSE IF 2 * r > q THEN f + 1
        ELSE IF f % 2 = 0 THEN f ELSE f + 1

\* format(v, ".2f"): the hundredths of v, when v is tracked.
Fixed2(v) ==
    IF Tracked(v) THEN Part(".2f", Mk("hundredths", RoundHalfEven(v.n, v.d), 100, ""))
    ELSE Part(".2f", v)

Conversions ==
    { <<"m", "ft">>, <<"ft", "m">>, <<"km", "mi">>, <<"mi", "km">>,
      <<"kg", "lb">>, <<"lb", "kg">>, <<"c", "f">>, <<"f", "c">> }

\* The factors 3.28084, 0.621371 and 2.20462 are no dyadic rationals: the
\* products and quotients by them are floats that are not tracked.
Factor(key) ==
    IF key \in {<<"m", "ft">>, <<"ft", "m">>} THEN FloatV(328084, 100000)
    ELSE IF key \in {<<"km", "mi">>, <<"mi", "km">>} THEN FloatV(621371, 1000000)
    ELSE FloatV(220462, 100000)

convert_units(value, from_unit, to_unit) ==
    LET key == <<lower(from_unit), lower(to_unit)>>
        Plus32(r) == IF r.st = "ok" THEN op_add(r.v, IntV(32)) ELSE r
        By5(r) == IF r.st = "ok" THEN Plus32(op_truediv(r.v, IntV(5))) ELSE r
        By9(r) == IF r.st = "ok" THEN op_truediv(r.v, IntV(9)) ELSE r
        Times5(r) == IF r.st = "ok" THEN By9(op_mul(r.v, IntV(5))) ELSE r
    IN  IF key \notin Conversions THEN Threw("ValueError", <<Txt("Unsupported unit conversion.")>>)
        ELSE IF key = <<"c", "f">> THEN Computed(By5(op_mul(value, IntV(9))))
        ELSE IF key = <<"f", "c">> THEN Computed(Times5(op_sub(value, IntV(32))))
        ELSE IF key \in {<<"m", "ft">>, <<"km", "mi">>, <<"kg", "lb">>}
        THEN Computed(op_mul(value, Factor(key)))
        ELSE Computed(op_truediv(value, Factor(key)))

_CITY_TIMEZONES ==
    [city \in { <<"new", " ", "york">>, <<"los", " ", "angeles">>, <<"london">>, <<"paris">>,
                <<"tokyo">>, <<"sydney">>, <<"delhi">> } |->
        IF city = <<"new", " ", "york">> THEN "America/New_York"
        ELSE IF city = <<"los", " ", "angeles">> THEN "America/Los_Angeles"
        ELSE IF city = <<"london">> THEN "Europe/London"
        ELSE IF city = <<"paris">> THEN "Europe/Paris"
        ELSE IF city = <<"tokyo">> THEN "Asia/Tokyo"
        ELSE IF city = <<"sydney">> THEN "Australia/Sydney"
        ELSE "Asia/Kolkata"]

\* The current time in a zone, as strftime writes it.
Strftime(tz_name, now) == Mk("str", now, 1, tz_name)

time_in(city, now) ==
    LET name == [i \in 1..Len(city) |-> lower(city[i])]
    IN  IF name \notin DOMAIN _CITY_TIMEZONES THEN Threw("ValueError", <<Txt("Unknown city.")>>)
        ELSE Gave(Strftime(_CITY_TIMEZONES[name], now))

\* A float divided by an int: the int is converted to a float first.
FloatByInt(a, b) == IF b = HugeInt THEN Err("OverflowError") ELSE op_truediv(a, b)

split_bill(total, num_people, tip_percent) ==
    IF num_people # HugeInt /\ num_people.n <= 0
    THEN Threw("ValueError", <<Txt("Number of people must be positive.")>>)
    ELSE IF Negative(total) \/ Negative(tip_percent)
    THEN Threw("ValueError", <<Txt("Total and tip must be non-negative.")>>)
    ELSE LET Share(sum) == IF sum.st = "ok" THEN FloatByInt(sum.v, num_people) ELSE sum
             WithTip(tip_amount) ==
                 IF tip_amount.st = "ok" THEN Share(op_add(total, tip_amount.v)) ELSE tip_amount
             Percent(product) ==
                 IF product.st = "ok" THEN WithTip(op_truediv(product.v, IntV(100))) ELSE product
         IN  Computed(Percent(op_mul(total, tip_percent)))

\* datetime.strptime(word, "%Y-%m-%d").date(), on the words the queries are made of.
Dates ==
    { [word |-> "1990-01-01", y |-> 1990, m |-> 1, d |-> 1],
      [word |-> "2000-11-03", y |-> 2000, m |-> 11, d |-> 3],
      [word |-> "2990-01-01", y |-> 2990, m |-> 1, d |-> 1] }

Before(a, b) ==
    \/ a.y < b.y
    \/ a.y = b.y /\ a.m < b.m
    \/ a.y = b.y /\ a.m = b.m /\ a.d < b.d

calculate_age(birthdate, today) ==
    IF \A b \in Dates : b.word # birthdate
    THEN Threw("ValueError", <<Txt("Birthdate must be in YYYY-MM-DD format.")>>)
    ELSE LET bdate == CHOOSE b \in Dates : b.word = birthdate
         IN  IF Before(today, bdate)
             THEN Threw("ValueError", <<Txt("Birthdate cannot be in the future.")>>)
             ELSE Gave(IntV(today.y - bdate.y
                            - (IF today.m < bdate.m \/ (today.m = bdate.m /\ today.d < bdate.d)
                               THEN 1 ELSE 0)))

_CACHE_TTL == 3600

\* What the currency API answers to a request: a rate, a rate that is no
\* number (null), no entry for the currency, no JSON, or no answer at all.
Responses ==
    { [kind |-> "rate", rate |-> FloatV(1, 2), reason |-> ""],
      [kind |-> "rate", rate |-> NoneV, reason |-> ""],
      [kind |-> "KeyError", rate |-> NoValue, reason |-> ""],
      [kind |-> "invalid", rate |-> NoValue, reason |-> ""],
      [kind |-> "URLError", rate |-> NoValue, reason |-> "timed out"] }

\* What a call of convert_currency did: its key, what it returned or raised,
\* the cache it left, and whether it sent a request to the API.
Converted(key, amount, o, cache, requested) ==
    [made |-> TRUE, key |-> key, amount |-> amount, outcome |-> o, cache |-> cache,
     requested |-> requested]

\* A mutant of Stored: the rate is not kept.
NotStored(cache, key, rate, now) == cache

\* _RATE_CACHE[key] = (rate, now)
Stored(cache, key, rate, now) ==
    [k \in DOMAIN cache \cup {key} |-> IF k = key THEN [rate |-> rate, ts |-> now] ELSE cache[k]]

\* convert_currency on the cache, at time now, with the API key of the
\* environment and the answer the API gives if it is asked.
convert_currency(amount, from_currency, to_currency, cache, now, env_key, net) ==
    LET key == <<upper(from_currency), upper(to_currency)>>
    IN  IF key \in DOMAIN cache /\ now - cache[key].ts < _CACHE_TTL
        THEN Converted(key, amount, Computed(op_mul(amount, cache[key].rate)), cache, FALSE)
        ELSE IF env_key = ""
        THEN Converted(key, amount, Threw("ValueError", <<Txt("Currency API key not configured.")>>), cache, FALSE)
        ELSE IF net.kind = "URLError"
        THEN Converted(key, amount, Threw("RuntimeError", <<Txt("Network error: "), Txt(net.reason)>>), cache, TRUE)
        ELSE IF net.kind = "KeyError"
        THEN Converted(key, amount, Threw("ValueError", <<Txt("Unsupported currency code.")>>), cache, TRUE)
        ELSE IF net.kind = "invalid"
        THEN Converted(key, amount, Threw("RuntimeError", <<Txt("Invalid response from currency API.")>>), cache, TRUE)
        ELSE Converted(key, amount, Computed(op_mul(amount, net.rate)), Stored(cache, key, net.rate, now), TRUE)

(***************************************************************************)
(* dispatch                                                                *)
(***************************************************************************)
RECURSIVE SplitFrom(_, _, _, _)
SplitFrom(q, i, word, words) ==
    IF i > Len(q) THEN (IF word = <<>> THEN words ELSE Append(words, word))
    ELSE IF q[i] = " "
    THEN SplitFrom(q, i + 1, <<>>, IF word = <<>> THEN words ELSE Append(words, word))
    ELSE SplitFrom(q, i + 1, Append(word, q[i]), words)

\* query.strip().split(): the words of the query.
Split(q) == SplitFrom(q, 1, <<>>, <<>>)

RECURSIVE Join(_)
\* " ".join(args): the atoms of the words, one " " between two words.
Join(args) ==
    IF Len(args) = 0 THEN <<>>
    ELSE IF Len(args) = 1 THEN args[1]
    ELSE args[1] \o <<" ">> \o Join(Tail(args))

\* A word as one string: the words of a command, a number, a unit or a
\* date are one atom each.
OneWord(w) == IF Len(w) = 1 THEN w[1] ELSE ""

\* What dispatch returned or raised; gave is what the utility of the command
\* returned or raised, when the command called it.
Said(text) == [kind |-> "returned", text |-> text, exc |-> "", gave |-> NotCalled]
Escaped(exc) == [kind |-> "raised", text |-> <<>>, exc |-> exc, gave |-> NotCalled]
Unsettled == [kind |-> "undecided", text |-> <<>>, exc |-> "", gave |-> NotCalled]

\* A mutant of Caught: a RuntimeError is prefixed whatever the command.
CaughtPrefixed(cmd, o) ==
    IF o.exc = "ValueError" THEN Said(o.msg)
    ELSE IF o.exc = "RuntimeError" THEN Said(<<Txt("Currency conversion failed: ")>> \o o.msg)
    ELSE Escaped(o.exc)

\* The except clauses of dispatch, on the exception a command raised.
Caught(cmd, o) ==
    IF o.exc = "ValueError" THEN Said(o.msg)
    ELSE IF o.exc = "RuntimeError"
    THEN Said(IF cmd = "currency" THEN <<Txt("Currency conversion failed: ")>> \o o.msg ELSE o.msg)
    ELSE Escaped(o.exc)

\* The answer of a command whose utility gave o: the text that formats its
\* value, or what the except clauses make of the exception.
Answered(cmd, o, text) ==
    LET Of(a) == [a EXCEPT !.gave = o]
    IN  IF o.kind = "returned" THEN Of(Said(text))
        ELSE IF o.kind = "raised" THEN Of(Caught(cmd, o))
        ELSE Of(Unsettled)

\* The utility of a command as the module binds it: the function itself, or
\* a replacement that raises RuntimeError(stub) (tests/test_currency.py:43-49).
Bound(stub, o) == IF stub = "" THEN o ELSE Threw("RuntimeError", <<Txt(stub)>>)

Texts(atoms) == [i \in 1..Len(atoms) |-> Txt(atoms[i])]

\* What scientific_calculator gave, as the outcome of a utility.
Calculated(o) ==
    IF o.kind = "returned" THEN (IF o.value = UntrackedInt THEN Unknown ELSE Gave(o.value))
    ELSE IF o.kind = "raised" THEN Threw(o.exc, <<Txt(o.msg)>>)
    ELSE Unknown

Dispatched(a, conv) == [answer |-> a, conv |-> conv]

\* The command did not call convert_currency.
NotConverted ==
    [made |-> FALSE, key |-> <<>>, amount |-> NoValue, outcome |-> Unknown, cache |-> EmptyDict,
     requested |-> FALSE]

dispatch_currency(args, cache, now, env_key, net, stub) ==
    IF Len(args) # 3
    THEN Dispatched(Said(<<Txt("Usage: currency <amount> <from_currency> <to_currency>")>>), NotConverted)
    ELSE LET Amount(amount) ==
                 IF amount.kind # "returned" THEN Dispatched(Caught("currency", amount), NotConverted)
                 ELSE LET Reply(result) ==
                              Answered("currency", result,
                                       <<Str(amount.value), Txt(" "), Txt(upper(OneWord(args[2]))),
                                         Txt(" = "), Fixed2(result.value), Txt(" "),
                                         Txt(upper(OneWord(args[3])))>>)
                          Result(c) ==
                              Dispatched(Reply(Bound(stub, c.outcome)), IF stub = "" THEN c ELSE NotConverted)
                      IN  Result(convert_currency(amount.value, OneWord(args[2]), OneWord(args[3]),
                                                  cache, now, env_key, net))
         IN  Amount(float(OneWord(args[1])))

dispatch_unit(args, stub) ==
    IF Len(args) # 3 THEN Said(<<Txt("Usage: unit <value> <from_unit> <to_unit>")>>)
    ELSE LET Value(value) ==
                 IF value.kind # "returned" THEN Caught("unit", value)
                 ELSE LET Reply(result) ==
                              Answered("unit", result,
                                       <<Str(value.value), Txt(" "), Txt(OneWord(args[2])), Txt(" = "),
                                         Fixed2(result.value), Txt(" "), Txt(OneWord(args[3]))>>)
                      IN  Reply(Bound(stub, convert_units(value.value, OneWord(args[2]), OneWord(args[3]))))
         IN  Value(float(OneWord(args[1])))

dispatch_time(args, now, stub) ==
    IF Len(args) = 0 THEN Said(<<Txt("Usage: time <city>")>>)
    ELSE LET city == Join(args)
             Reply(current_time) ==
                 Answered("time", current_time,
                          <<Txt("The time in ")>> \o [i \in 1..Len(city) |-> Txt(title(city[i]))]
                          \o <<Txt(" is "), Str(current_time.value)>>)
         IN  Reply(Bound(stub, time_in(city, now)))

dispatch_split(args, stub) ==
    IF Len(args) # 3 THEN Said(<<Txt("Usage: split <total> <num_people> <tip_percent>")>>)
    ELSE LET Tip(total, num_people, tip_percent) ==
                 IF tip_percent.kind # "returned" THEN Caught("split", tip_percent)
                 ELSE LET Reply(each) ==
                              Answered("split", each, <<Txt("Each person should pay "), Fixed2(each.value)>>)
                      IN  Reply(Bound(stub, split_bill(total.value, num_people.value, tip_percent.value)))
             People(total, num_people) ==
                 IF num_people.kind # "returned" THEN Caught("split", num_people)
                 ELSE Tip(total, num_people, float(OneWord(args[3])))
             Total(total) ==
                 IF total.kind # "returned" THEN Caught("split", total)
                 ELSE People(total, int(OneWord(args[2])))
         IN  Total(float(OneWord(args[1])))

dispatch_age(args, today, stub) ==
    IF Len(args) # 1 THEN Said(<<Txt("Usage: age <YYYY-MM-DD>")>>)
    ELSE LET Reply(years) ==
                 Answered("age", years, <<Txt("You are "), Str(years.value), Txt(" years old.")>>)
         IN  Reply(Bound(stub, calculate_age(OneWord(args[1]), today)))

dispatch_calc(args, stub) ==
    IF Len(args) = 0 THEN Said(<<Txt("Usage: calc <expression>")>>)
    ELSE LET After(e) ==
                 LET Result(o) ==
                         IF o.kind = "undecided" THEN Said(<<Part("undecided", NoValue)>>)
                         ELSE Answered("calc", o, Texts(e) \o <<Txt(" = "), Str(o.value)>>)
                 IN  Result(Bound(stub, Calculated(scientific_calculator(e).outcome)))
         IN  After(Join(args))

\* dispatch(query) on the cache, at time now, on the day today.
dispatch(q, cache, now, env_key, net, today, stub) ==
    LET parts == Split(q)
        cmd == IF parts = <<>> THEN "" ELSE lower(OneWord(parts[1]))
        args == IF parts = <<>> THEN <<>> ELSE Tail(parts)
    IN  IF parts = <<>> THEN Dispatched(Said(<<Txt("Please provide a command.")>>), NotConverted)
        ELSE IF cmd = "currency" THEN dispatch_currency(args, cache, now, env_key, net, stub)
        ELSE IF cmd = "unit" THEN Dispatched(dispatch_unit(args, stub), NotConverted)
        ELSE IF cmd = "time" THEN Dispatched(dispatch_time(args, now, stub), NotConverted)
        ELSE IF cmd = "split" THEN Dispatched(dispatch_split(args, stub), NotConverted)
        ELSE IF cmd = "age" THEN Dispatched(dispatch_age(args, today, stub), NotConverted)
        ELSE IF cmd = "calc" THEN Dispatched(dispatch_calc(args, stub), NotConverted)
        ELSE Dispatched(Said(<<Txt("Unknown command. Available: currency, unit, time, split, age, calc.")>>),
                        NotConverted)

(***************************************************************************)
(* Calls of convert_currency one after another, time passing between them. *)
(***************************************************************************)
MaxConversions == 2
MaxClock == 3600

Ticks == {1799, 1800}

Amounts == {FloatV(10, 1)}

CurrencyPairs == { <<"usd", "EUR">>, <<"USD", "EUR">>, <<"USD", "GBP">> }

\* The record of a call of convert_currency: what it was called with, the
\* cache before it and the time, and what it did.
Logged(c, before, now) ==
    [key |-> c.key, amount |-> c.amount, before |-> before, now |-> now,
     requested |-> c.requested, outcome |-> c.outcome, after |-> c.cache]

CurrencyInit ==
    /\ NoCall
    /\ TablesInitial
    /\ NoSession
    /\ NoThreads
    /\ NoNews
    /\ NoTools
    /\ query = <<>>
    /\ answer = NoAnswer
    /\ rate_cache = EmptyDict
    /\ clock = 0
    /\ api_key \in {"", "secret"}
    /\ conversions = <<>>

\* Time passes.
Tick(d, limit) ==
    /\ clock + d <= limit
    /\ clock' = clock + d
    /\ TablesKept
    /\ UNCHANGED <<calcvars, history, frames, alone, newsvars, toolvars>>
    /\ UNCHANGED <<query, answer, rate_cache, api_key, conversions>>

\* A call convert_currency(amount, from_currency, to_currency).
ConvertCurrency(amount, from_currency, to_currency, net) ==
    /\ Len(conversions) < MaxConversions
    /\ LET Result(c) ==
               /\ rate_cache' = c.cache
               /\ conversions' = Append(conversions, Logged(c, rate_cache, clock))
       IN  Result(convert_currency(amount, from_currency, to_currency, rate_cache, clock, api_key, net))
    /\ TablesKept
    /\ UNCHANGED <<calcvars, history, frames, alone, newsvars, toolvars>>
    /\ UNCHANGED <<query, answer, clock, api_key>>

CurrencyNext ==
    \/ \E d \in Ticks : Tick(d, MaxClock)
    \/ \E amount \in Amounts, pair \in CurrencyPairs, net \in Responses :
           ConvertCurrency(amount, pair[1], pair[2], net)

SpecCurrency == CurrencyInit /\ [][CurrencyNext]_vars

(***************************************************************************)
(* One call of dispatch, in a module whose rate cache is empty or holds a  *)
(* rate stored at time 0.                                                  *)
(***************************************************************************)
Single(words) == [i \in 1..Len(words) |-> <<words[i]>>]

\* The words with lead blanks before them and gap blanks between two of them.
RECURSIVE Spaced(_, _, _)
Spaced(words, lead, gap) ==
    IF Len(words) = 0 THEN [i \in 1..lead |-> " "]
    ELSE [i \in 1..lead |-> " "] \o words[1] \o Spaced(Tail(words), IF Len(words) = 1 THEN 0 ELSE gap, gap)

WordLists ==
    {<<>>, <<"bogus">>, <<"bogus", "1">>}
    \cup {<<"currency", "10", "usd">>}
    \cup {<<"currency", a, f, t>> : a \in {"10", "abc"}, f \in {"usd", "USD"}, t \in {"EUR", "GBP"}}
    \cup {<<"unit", "10", "m">>}
    \cup {<<"unit", v, u[1], u[2]>> : v \in {"10", "abc"}, u \in {<<"m", "ft">>, <<"C", "f">>, <<"m", "kg">>}}
    \cup {<<"time">>, <<"time", "london">>, <<"time", "New", "york">>, <<"time", "mars">>}
    \cup {<<"split", "100", "4">>, <<"Split", "100", "4", "10">>}
    \cup {<<"split", t, n, p>> : t \in {"100", "-5", "abc"}, n \in {"4", "0", "2.5", ManyDigits},
                                 p \in {"10", "-1"}}
    \cup {<<"age">>, <<"age", "1990-01-01">>, <<"age", "2000-11-03">>, <<"age", "2990-01-01">>,
          <<"age", "x">>}
    \cup {<<"calc">>, <<"calc", "2", "+", "3">>, <<"calc", "sin">>, <<"calc", "2", "/", "0">>,
          <<"calc", "foo">>}

Queries ==
    {Spaced(Single(ws), 0, 1) : ws \in WordLists}
    \cup {Spaced(Single(ws), 1, 2) : ws \in {<<>>, <<"calc", "2", "+", "3">>, <<"time", "New", "york">>}}
    \cup {<<"calc", " ", "2", "*", "*", "3">>}

Todays == { [y |-> 2026, m |-> 11, d |-> 2], [y |-> 2026, m |-> 11, d |-> 3] }

Stubs == {"", "Network down"}

DispatchInit ==
    /\ NoCall
    /\ TablesInitial
    /\ NoSession
    /\ NoThreads
    /\ NoNews
    /\ NoTools
    /\ query = <<>>
    /\ answer = NoAnswer
    /\ rate_cache \in {EmptyDict, Stored(EmptyDict, <<"USD", "EUR">>, FloatV(1, 2), 0)}
    /\ clock \in {0, 1800, 3600}
    /\ api_key \in {"", "secret"}
    /\ conversions = <<>>

\* A call dispatch(q).
Dispatch(q, net, today, stub) ==
    /\ answer = NoAnswer
    /\ query' = q
    /\ LET Result(r) ==
               /\ answer' = r.answer
               /\ rate_cache' = (IF r.conv.made THEN r.conv.cache ELSE rate_cache)
               /\ conversions' = (IF r.conv.made
                                  THEN Append(conversions, Logged(r.conv, rate_cache, clock))
                                  ELSE conversions)
       IN  Result(dispatch(q, rate_cache, clock, api_key, net, today, stub))
    /\ TablesKept
    /\ UNCHANGED <<calcvars, history, frames, alone, newsvars, toolvars>>
    /\ UNCHANGED <<clock, api_key>>

DispatchNext == \E q \in Queries, net \in Responses, today \in Todays, stub \in Stubs : Dispatch(q, net, today, stub)

SpecDispatch == DispatchInit /\ [][DispatchNext]_vars

(***************************************************************************)
(* news.py: calls of get_headlines one after another, time passing between *)
(* them.                                                                   *)
(***************************************************************************)
MaxFetches == 2
MaxNewsClock == 1200

CACHE_TTL == 600

NewsTicks == {599, 600}

\* The items of the feed, each with the text of its title and of its link
\* ("" when the item lacks it).
Item(t, l) == [title |-> t, link |-> l]

\* What the request gives: the feed, a body that is no XML, or an httpx.HTTPError.
Feeds ==
    { [kind |-> "feed", items |-> <<>>],
      [kind |-> "feed", items |-> <<Item("Rain", "http://a"), Item("", "http://b"), Item("Sun", "http://c")>>],
      [kind |-> "ParseError", items |-> <<>>],
      [kind |-> "HTTPError", items |-> <<>>] }

\* category or "": None and "" give "".
OrEmpty(v) == IF v = NoneV THEN "" ELSE v.s

Limit == 5

RECURSIVE Complete(_)
\* The (title, link) of the items that have both.
Complete(items) ==
    IF items = <<>> THEN <<>>
    ELSE IF Head(items).title # "" /\ Head(items).link # ""
    THEN <<Head(items)>> \o Complete(Tail(items))
    ELSE Complete(Tail(items))

_parse_rss(items) == Complete(SubSeq(items, 1, IF Len(items) < Limit THEN Len(items) ELSE Limit))

RECURSIVE Lines(_)
\* "\n".join of the lines "- title (link)".
Lines(headlines) ==
    IF headlines = <<>> THEN <<>>
    ELSE <<Txt("- "), Txt(Head(headlines).title), Txt(" ("), Txt(Head(headlines).link), Txt(")")>>
         \o (IF Len(headlines) = 1 THEN <<>> ELSE <<Txt("\n")>> \o Lines(Tail(headlines)))

Summary(headlines) == IF headlines = <<>> THEN <<Txt("No headlines found.")>> ELSE Lines(headlines)

ErrorText == <<Txt("Error fetching news headlines. Please try again later.")>>

\* What a call of get_headlines did: what it returned or raised, the cache
\* it left, and whether it sent a request.
Fetched(key, o, cache, requested) == [key |-> key, outcome |-> o, cache |-> cache, requested |-> requested]

\* _cache[key] = (now, summary)
Kept(cache, key, now, summary) ==
    [k \in DOMAIN cache \cup {key} |-> IF k = key THEN [ts |-> now, summary |-> summary] ELSE cache[k]]

\* A mutant of OnHTTPError: the error text is kept as the summary.
OnHTTPErrorKept(cache, key, now) == Fetched(key, Gave(ErrorText), Kept(cache, key, now, ErrorText), TRUE)

\* except httpx.HTTPError: return the error text
OnHTTPError(cache, key, now) == Fetched(key, Gave(ErrorText), cache, TRUE)

get_headlines(category, region, cache, now, net) ==
    LET key == <<OrEmpty(category), OrEmpty(region)>>
    IN  IF key \in DOMAIN cache /\ now - cache[key].ts < CACHE_TTL
        THEN Fetched(key, Gave(cache[key].summary), cache, FALSE)
        ELSE IF net.kind = "HTTPError" THEN OnHTTPError(cache, key, now)
        ELSE IF net.kind = "ParseError" THEN Fetched(key, Threw("ParseError", <<>>), cache, TRUE)
        ELSE Fetched(key, Gave(Summary(_parse_rss(net.items))),
                     Kept(cache, key, now, Summary(_parse_rss(net.items))), TRUE)

Categories == {NoneV, StrV(""), StrV("world")}
Regions == {NoneV, StrV("us")}

NewsInit ==
    /\ NoCall
    /\ TablesInitial
    /\ NoSession
    /\ NoThreads
    /\ NoUtilities
    /\ NoNews
    /\ NoTools

\* A call get_headlines(category, region).
GetHeadlines(category, region, net) ==
    /\ Len(fetched) < MaxFetches
    /\ LET Result(f) ==
               /\ news_cache' = f.cache
               /\ fetched' = Append(fetched, [key |-> f.key, before |-> news_cache, now |-> clock,
                                              net |-> net.kind, requested |-> f.requested,
                                              outcome |-> f.outcome, after |-> f.cache])
       IN  Result(get_headlines(category, region, news_cache, clock, net))
    /\ TablesKept
    /\ UNCHANGED <<calcvars, history, frames, alone, utilvars, toolvars>>

NewsNext ==
    \/ \E d \in NewsTicks : Tick(d, MaxNewsClock)
    \/ \E category \in Categories, region \in Regions, net \in Feeds : GetHeadlines(category, region, net)

SpecNews == NewsInit /\ [][NewsNext]_vars

(***************************************************************************)
(* What is written in an expression, read off its syntax tree.             *)
(***************************************************************************)
Tree == ast_parse(expression)
Done == pc = "done"
Failed == outcome.kind = "raised" /\ outcome.value = NoValue

RECURSIVE Scan(_, _), ScanSeq(_, _, _), ScanKeywords(_, _, _)

\* Whether the node itself is: an identifier outside the allow-list ("name"), a
\* call passing a keyword argument ("keyword"), a call whose target is not a
\* bare name of the allow-list ("target"), or a construct outside literal,
\* identifier, unary + and -, the six binary operators and call ("construct").
Here(node, what) ==
    CASE what = "name" -> (node.kind = "Name" /\ ~InTable(node.id)) \/ node.kind = "Attribute"
      [] what = "keyword" -> node.kind = "Call" /\ Len(node.keywords) > 0
      [] what = "target" -> node.kind = "Call" /\ ~(node.func.kind = "Name" /\ InTable(node.func.id))
      [] what = "construct" ->
            \/ node.kind \in {"Attribute", "Tuple", "Compare", "Starred"}
            \/ (node.kind = "UnaryOp" /\ node.op \notin {"UAdd", "USub"})
            \/ (node.kind = "BinOp" /\ node.op \notin {"Add", "Sub", "Mult", "Div", "Mod", "Pow"})

ScanSeq(q, i, what) == i <= Len(q) /\ (Scan(q[i], what) \/ ScanSeq(q, i + 1, what))
ScanKeywords(q, i, what) ==
    i <= Len(q) /\ (Scan(q[i].value, what) \/ ScanKeywords(q, i + 1, what))

\* Whether some node of the tree, keyword arguments included, is such a node.
Scan(node, what) ==
    \/ Here(node, what)
    \/ CASE node.kind = "UnaryOp" -> Scan(node.operand, what)
         [] node.kind = "BinOp" -> Scan(node.left, what) \/ Scan(node.right, what)
         [] node.kind = "Call" ->
               Scan(node.func, what) \/ ScanSeq(node.args, 1, what)
               \/ ScanKeywords(node.keywords, 1, what)
         [] node.kind = "Attribute" -> Scan(node.value, what)
         [] node.kind = "Tuple" -> ScanSeq(node.elts, 1, what)
         [] node.kind = "Compare" -> Scan(node.left, what) \/ ScanSeq(node.comparators, 1, what)
         [] node.kind = "Starred" -> Scan(node.value, what)
         [] OTHER -> FALSE

Text(op) == IF op = "**" THEN <<"*", "*">> ELSE <<op>>

(***************************************************************************)
(* C1..C10                                                                 *)
(***************************************************************************)

\* Every routine a call invokes is a function of the allow-list, named as the
\* bare target of a call of the expression, with the values the call passed.
InvokedFromTable ==
    \A i \in DOMAIN invoked :
        /\ invoked[i].fn \in DOMAIN _ALLOWED_NAMES
        /\ _ALLOWED_NAMES[invoked[i].fn] = FuncV(invoked[i].fn)

\* C1: for every input, scientific_calculator invokes only functions of the
\* allow-list table, and an expression that holds a call target or an
\* identifier outside the allow-list fails with an error.
C1_OnlyAllowListRuns ==
    Done =>
        /\ InvokedFromTable
        /\ (Tree.ok /\ (Scan(Tree.node, "target") \/ Scan(Tree.node, "name"))) => Failed

\* C2: a bare identifier evaluates only when it names a constant of the table,
\* to that constant's numeric value; every other name, a function name such as
\* sin included, fails as an unknown identifier.
C2_BareIdentifierIsConstant ==
    (Done /\ Tree.ok /\ Tree.node.kind = "Name") =>
        IF InTable(Tree.node.id) /\ Tree.node.id[1] \in ConstantNames
        THEN outcome = Returned(SymFloat(Tree.node.id[1]))
        ELSE Failed /\ outcome.cause = "ValueError: Invalid expression."

\* C3: an expression is accepted only if every construct in it is of the
\* closed grammar and every identifier in it is in the allow-list: a call
\* passing a keyword argument, or naming an unlisted identifier in any
\* argument, is rejected.
C3_NothingIgnored ==
    (Done /\ Tree.ok /\ outcome.kind = "returned") =>
        /\ ~Scan(Tree.node, "construct")
        /\ ~Scan(Tree.node, "keyword")
        /\ ~Scan(Tree.node, "name")

\* C4: every value a successful call returns is a float.
C4_ReturnsFloat ==
    (Done /\ outcome.kind = "returned") => outcome.value.t = "float"

NonBlank(a) == SelectSeq(a, LAMBDA c : c # " ")
Count(a, c) == Len(SelectSeq(a, LAMBDA x : x = c))
Unbalanced(a) ==
    \/ Count(a, "(") # Count(a, ")")
    \/ \E n \in 1..Len(a) : Count(SubSeq(a, 1, n), ")") > Count(SubSeq(a, 1, n), "(")
EndsWithOperator(a) ==
    Len(NonBlank(a)) > 0 /\ NonBlank(a)[Len(NonBlank(a))] \in {"+", "-", "*", "/", "%", "^", "~", "="}
OperandEnd == DigitAtoms \cup Words \cup {")"}
OperandStart == DigitAtoms \cup Words
TrailingOperand(a) ==
    \E i \in 1..Len(a) : \E j \in (i + 2)..Len(a) :
        /\ a[i] \in OperandEnd
        /\ a[j] \in OperandStart
        /\ \A m \in (i + 1)..(j - 1) : a[m] = " "
SeveralPoints(a) ==
    \E i \in 1..Len(a) : \E j \in i..Len(a) :
        /\ \A m \in i..j : a[m] \in DigitAtoms \cup {"."}
        /\ \E m \in i..j : a[m] \in DigitAtoms
        /\ Count(SubSeq(a, i, j), ".") >= 2
Malformed(a) ==
    \/ Len(NonBlank(a)) = 0
    \/ Unbalanced(a)
    \/ EndsWithOperator(a)
    \/ TrailingOperand(a)
    \/ SeveralPoints(a)

\* C6: every malformed input makes scientific_calculator raise ValueError: no
\* value and no partial result is returned, and no routine has been invoked.
C6_MalformedFails ==
    (Done /\ Malformed(expression)) =>
        /\ Failed
        /\ outcome.exc = "ValueError"
        /\ outcome.msg = "Invalid expression."
        /\ invoked = <<>>

C6_Witness ==
    /\ Done
    /\ expression = <<"2", " ", "+">>
    /\ Malformed(expression)
    /\ outcome = ReRaise("SyntaxError")

\* The outcome of a call whose evaluation ended as r.
OutcomeOf(r) ==
    IF r.st = "ok" THEN Returned(r.v)
    ELSE IF r.st = "err" THEN ReRaise(r.err)
    ELSE Undecided

Chain(a, op, b, c) == Lit(a) \o Text(op) \o Lit(b) \o Text(op) \o Lit(c)

\* The value of a ** (b ** c) on integer literals.
PowerOfPower(a, b, c) == op_pow(IntV(a), op_pow(IntV(b), IntV(c)).v)

\* C7 as stated: the power operator written ^ is accepted and right-associative,
\* so "a^b^c" evaluates to the value of a^(b^c) and "2^3^2" to 512.
C7_CaretIsPower ==
    Done =>
        \A a, b, c \in 0..MaxLit :
            expression = Chain(a, "^", b, c) =>
                /\ outcome.kind = "returned"
                /\ outcome.value.n = PowerOfPower(a, b, c).v.n

\* C7, amended: the power operator is written ** ; it is right-associative, so
\* "a**b**c" on integer literals evaluates to a ** (b ** c) and "2**3**2" to
\* 512, not 64. The operator written ^ is not a power operator: "a^b^c" is
\* refused with ValueError and no routine runs.
C7_PowerRightAssociative ==
    Done =>
        \A a, b, c \in 0..MaxLit :
            /\ expression = Chain(a, "**", b, c) =>
                  outcome = OutcomeOf(PowerOfPower(a, b, c))
            /\ expression = Chain(a, "^", b, c) =>
                  /\ outcome = ReRaise("ValueError: Unsupported operator.")
                  /\ invoked = <<>>

C7_Witness ==
    /\ Done
    /\ expression = Chain(2, "**", 3, 2)
    /\ outcome = Returned(IntV(512))

\* Expressions of numeric literals, unary + and -, and the six binary operators.
RECURSIVE Arithmetic(_)
Arithmetic(node) ==
    CASE node.kind = "Constant" -> node.value.t \in {"int", "float"}
      [] node.kind = "UnaryOp" -> node.op \in {"UAdd", "USub"} /\ Arithmetic(node.operand)
      [] node.kind = "BinOp" ->
            /\ node.op \in {"Add", "Sub", "Mult", "Div", "Mod", "Pow"}
            /\ Arithmetic(node.left)
            /\ Arithmetic(node.right)
      [] OTHER -> FALSE

\* One operation on doubles: a zero divisor gives an infinity or a NaN, a
\* negative base with a fractional exponent a NaN, the remainder is the one the
\* host computes on floats; a double the model does not track stays untracked.
Special(s) == Mk("float", 0, 1, s)
DoubleOp(op, a, b) ==
    IF a.s = "nan" \/ b.s = "nan" THEN Special("nan")
    ELSE IF ~(Tracked(a) /\ Tracked(b)) THEN UntrackedFloat
    ELSE IF op \in {"Div", "Mod"} /\ IsZero(b)
    THEN Special(IF op = "Mod" \/ IsZero(a) THEN "nan" ELSE "inf")
    ELSE IF op = "Pow" /\ IsZero(a) /\ b.n < 0 THEN Special("inf")
    ELSE IF op = "Pow" /\ a.n < 0 /\ b.d # 1 THEN Special("nan")
    ELSE LET r == ApplyOperator(op, a, b)
         IN  IF r.st = "ok" THEN r.v ELSE UntrackedFloat

\* The evaluation of an arithmetic expression on doubles.
RECURSIVE Double(_)
Double(node) ==
    CASE node.kind = "Constant" -> AsFloat(node.value)
      [] node.kind = "UnaryOp" ->
            LET v == Double(node.operand)
            IN  IF node.op = "USub" /\ Tracked(v) THEN FloatV(-v.n, v.d) ELSE v
      [] node.kind = "BinOp" -> DoubleOp(node.op, Double(node.left), Double(node.right))

\* C8: an expression of numeric literals, parentheses, unary + and -, and the
\* binary operators + - * / % and power returns the double that IEEE-754
\* evaluation of the expression gives ("2**3" gives 8.0, "10 % 3" gives 1.0).
C8_DoubleEvaluation ==
    (Done /\ Tree.ok /\ Arithmetic(Tree.node)) =>
        /\ outcome.kind = "returned"
        /\ outcome.value.t = "float"
        /\ Tracked(Double(Tree.node)) => outcome.value = Double(Tree.node)

\* The values of the literal arguments of a call, in source order.
Literal(node) == node.kind = "Constant" /\ node.value.t \in {"int", "float"}
ArgValues(args) == [i \in 1..Len(args) |-> args[i].value]

SinPlusPower ==
    {<<"sin", "(", "pi", " ", "/", " ", "2", ")", " ", "+", " ", "2", "*", "*", "3">>,
     <<"sin", "(", "pi", "/", "2", ")", "+", "2", "*", "*", "3">>}

\* C9: a call of an allowed function is the table's routine applied to the
\* values of its arguments in source order; a constant name yields its table
\* value; these compose through binary operators: "sin(pi/2) + 2**3" is 9.0.
C9_CallsAndConstantsCompose ==
    Done =>
        /\ (Tree.ok /\ Tree.node.kind = "Call" /\ CallTargetAllowed(Tree.node.func)
              /\ Tree.node.func.id[1] \in FunctionNames
              /\ \A i \in DOMAIN Tree.node.args : Literal(Tree.node.args[i])) =>
                 LET fn == Tree.node.func.id[1]
                     vals == ArgValues(Tree.node.args)
                 IN  /\ invoked = <<[fn |-> fn, args |-> vals]>>
                     /\ outcome = OutcomeOf(HostCall(fn, vals))
        /\ (Tree.ok /\ Tree.node.kind = "Name" /\ InTable(Tree.node.id)
              /\ Tree.node.id[1] \in ConstantNames) =>
                 outcome = Returned(_ALLOWED_NAMES[Tree.node.id[1]])
        /\ expression \in SinPlusPower =>
              /\ invoked = <<[fn |-> "sin", args |-> <<SymFloat("pi/2")>>]>>
              /\ outcome = Returned(FloatV(9, 1))

C9_Witness ==
    /\ Done
    /\ expression \in SinPlusPower
    /\ Len(invoked) = 1
    /\ outcome = Returned(FloatV(9, 1))

\* "x / 0" or "x % 0": a numeric literal x, signed or not, over a literal zero.
Dividend(node) ==
    \/ Literal(node)
    \/ node.kind = "UnaryOp" /\ node.op \in {"UAdd", "USub"} /\ Literal(node.operand)
ByZero(node) ==
    /\ node.kind = "BinOp"
    /\ node.op \in {"Div", "Mod"}
    /\ Dividend(node.left)
    /\ Literal(node.right)
    /\ IsZero(node.right.value)

Surfaced(o) == <<o.exc, o.msg>>

\* The causes of failure C11 names: a parse failure, an unknown identifier, an
\* unknown function, an arity mismatch.
NamedCauses ==
    {"SyntaxError", "ValueError: Invalid expression.", "ValueError: Function not allowed.",
     "TypeError"}

\* C11: a failed evaluation surfaces a kind and a reason of its own for each of
\* a parse failure, an unknown identifier, an unknown function and an arity
\* mismatch, and never a numeric result with it.
C11_DistinctErrorKinds ==
    (Done /\ outcome.kind = "raised" /\ outcome.cause \in NamedCauses) =>
        /\ outcome.value = NoValue
        /\ \A c \in NamedCauses \ {outcome.cause} : Surfaced(ReRaise(c)) # Surfaced(outcome)

Signed(a, op, b) == <<"-">> \o Lit(a) \o Text(op) \o Lit(b)

\* The value of -(a ** b) on integer literals.
MinusPower(a, b) == ApplyUnary("USub", op_pow(IntV(a), IntV(b)).v)

\* C15 as stated: "-a^b" evaluates to -(a^b), so "-2^2" evaluates to -4.
C15_MinusCaretPower ==
    Done =>
        \A a, b \in 0..MaxLit :
            expression = Signed(a, "^", b) =>
                /\ outcome.kind = "returned"
                /\ outcome.value.n = MinusPower(a, b).v.n

\* C15, amended: with the power operator written ** , unary minus applied to a
\* power negates the power: "-a**b" on integer literals evaluates to -(a ** b),
\* so "-2**2" evaluates to -4 and not 4. "-a^b" is refused with ValueError.
C15_MinusNegatesPower ==
    Done =>
        \A a, b \in 0..MaxLit :
            /\ expression = Signed(a, "**", b) => outcome = OutcomeOf(MinusPower(a, b))
            /\ expression = Signed(a, "^", b) =>
                  outcome = ReRaise("ValueError: Unsupported operator.")

C15_Witness ==
    /\ Done
    /\ expression = Signed(2, "**", 2)
    /\ outcome = Returned(IntV(-4))

\* C16: for every expression the MCP tool calculate returns the value
\* scientific_calculator returns or, when the evaluation fails, raises McpError
\* with code INVALID_PARAMS and the failure's message; no failure yields a
\* value and no other exception type reaches the caller.
C16_ToolReturnsOrInvalidParams ==
    (Done /\ reply # NoReply) =>
        /\ outcome.kind = "returned" => reply.kind = "returned" /\ reply.value = outcome.value
        /\ outcome.kind = "raised" =>
              /\ reply.kind = "raised"
              /\ reply.exc = "McpError"
              /\ reply.code = "INVALID_PARAMS"
              /\ reply.message = outcome.msg
              /\ reply.value = NoValue
        /\ reply.kind = "raised" => outcome.kind = "raised"

C16_Witness ==
    /\ Done
    /\ expression = <<"2", " ", "+">>
    /\ outcome = ReRaise("SyntaxError")
    /\ reply = [kind |-> "raised", value |-> NoValue, exc |-> "McpError",
                code |-> "INVALID_PARAMS", message |-> "Invalid expression."]

\* C12: evaluating the same expression twice, with any evaluations in
\* between, yields the same outcome both times.
C12_SameExpressionSameOutcome ==
    \A i, j \in DOMAIN history :
        history[i].expression = history[j].expression =>
            history[i].outcome = history[j].outcome

C12_Witness ==
    /\ Len(history) = 3
    /\ history[1].expression = <<"pi">>
    /\ history[2].expression = <<"2", " ", "+">>
    /\ history[3].expression = <<"pi">>
    /\ history[1].outcome = Returned(SymFloat("pi"))
    /\ history[2].outcome.kind = "raised"
    /\ history[3].outcome = history[1].outcome

\* C13: no call of scientific_calculator, succeeding or failing, changes the
\* tables: after any sequence of calls _ALLOWED_NAMES and _ALLOWED_OPERATORS
\* hold the entries they held after module initialisation.
C13_TablesUnchanged ==
    /\ allowed_names = _ALLOWED_NAMES
    /\ allowed_operators = _ALLOWED_OPERATORS

C13_Witness ==
    /\ Len(history) >= 2
    /\ \E i \in DOMAIN history : history[i].outcome.kind = "returned"
    /\ \E i \in DOMAIN history : history[i].outcome.kind = "raised"
    /\ allowed_names = _ALLOWED_NAMES
    /\ allowed_operators = _ALLOWED_OPERATORS

\* C14: when several calls of scientific_calculator run concurrently and their
\* steps interleave in any order, each call returns the outcome it returns
\* when it runs alone, and the tables stay as they were.
C14_ConcurrentCallsAsAlone ==
    /\ \A t \in Threads : frames[t].pc = "done" => frames[t].outcome = alone[t]
    /\ allowed_names = _ALLOWED_NAMES
    /\ allowed_operators = _ALLOWED_OPERATORS

C14_Witness ==
    /\ frames # <<>>
    /\ \A t \in Threads : frames[t].pc = "done"
    /\ frames[1].expression = <<"2", " ", "+">>
    /\ frames[2].expression = <<"2", "*", "*", "3">>
    /\ frames[1].outcome = ReRaise("SyntaxError")
    /\ frames[2].outcome = Returned(IntV(8))

\* The command of the answered query, and whether the query has one.
Command == lower(OneWord(Split(query)[1]))
Commands == {"currency", "unit", "time", "split", "age", "calc"}

\* C17: whatever the query, dispatch returns a string and raises nothing: an
\* empty query gives "Please provide a command.", an unknown command gives
\* the list of the commands.
C17_DispatchNeverRaises ==
    answer # NoAnswer =>
        /\ answer.kind = "returned"
        /\ Split(query) = <<>> => answer.text = <<Txt("Please provide a command.")>>
        /\ (Split(query) # <<>> /\ Command \notin Commands) =>
               answer.text = <<Txt("Unknown command. Available: currency, unit, time, split, age, calc.")>>

\* C19: when the utility of a command raises RuntimeError with the message m,
\* dispatch returns "Currency conversion failed: m" for the command currency
\* and m alone for every other command, and raises nothing.
C19_RuntimeErrorIsReturned ==
    (answer.gave.kind = "raised" /\ answer.gave.exc = "RuntimeError") =>
        /\ answer.kind = "returned"
        /\ answer.text = IF Command = "currency"
                         THEN <<Txt("Currency conversion failed: ")>> \o answer.gave.msg
                         ELSE answer.gave.msg

C19_Witness ==
    /\ answer.gave.kind = "raised"
    /\ answer.gave.exc = "RuntimeError"
    /\ Command = "currency"
    /\ api_key # ""
    /\ answer.text = <<Txt("Currency conversion failed: "), Txt("Network error: "), Txt("timed out")>>

\* The call found no entry for its pair, or one stored 3600 seconds ago or more.
NoFreshEntry(c) == c.key \notin DOMAIN c.before \/ c.now - c.before[c.key].ts >= 3600

\* The call got a rate from the API and stored it.
GotRate(c) == c.requested /\ c.key \in DOMAIN c.after /\ c.after[c.key].ts = c.now

RequestFailed(f) == f.requested /\ f.net = "HTTPError"

\* C20: when the HTTP request fails, get_headlines returns the text "Error
\* fetching news headlines. Please try again later.", raises nothing and
\* leaves the cache as it was; the text is never in the cache, and the next
\* call for the key sends a request again unless the cache holds an entry
\* for the key younger than CACHE_TTL.
C20_FailedFetchLeavesCache ==
    /\ \A i \in DOMAIN fetched :
           RequestFailed(fetched[i]) =>
               /\ fetched[i].outcome = Gave(ErrorText)
               /\ fetched[i].after = fetched[i].before
    /\ \A k \in DOMAIN news_cache : news_cache[k].summary # ErrorText
    /\ \A i, j \in DOMAIN fetched :
           (/\ i < j
            /\ RequestFailed(fetched[i])
            /\ fetched[j].key = fetched[i].key
            /\ \A m \in (i + 1)..(j - 1) : fetched[m].key # fetched[i].key) =>
               (fetched[j].requested
                <=> ~(/\ fetched[j].key \in DOMAIN fetched[j].before
                      /\ fetched[j].now - fetched[j].before[fetched[j].key].ts < CACHE_TTL))

C20_Witness ==
    /\ Len(fetched) = 2
    /\ RequestFailed(fetched[1])
    /\ fetched[2].key = fetched[1].key
    /\ fetched[2].now = 599
    /\ fetched[2].requested
    /\ fetched[2].outcome.kind = "returned"
    /\ fetched[2].outcome.value # ErrorText
    /\ news_cache # EmptyDict

(***************************************************************************)
(* expense_tracker.py: ExpenseStorage over the table expenses, and the     *)
(* tools add_expense and weekly_summary of mcp_starter.py that call it.    *)
(* A datetime is naive: year, month, day, hour, minute, second and         *)
(* microsecond.  The dates run from Monday 2023-12-25 to 2024-02-29.       *)
(***************************************************************************)

\* The most calls of the expense tools and of ExpenseStorage in one run.
MaxExpenseCalls == 3

datetime(y, m, d, H, M, S, us) == [y |-> y, m |-> m, d |-> d, H |-> H, M |-> M, S |-> S, us |-> us]

\* date.toordinal(), counted from Monday 2023-12-25.
toordinal(dt) ==
    IF dt.y = 2023 THEN dt.d - 25
    ELSE IF dt.m = 1 THEN 6 + dt.d
    ELSE 37 + dt.d

\* date.fromordinal(n), with the time of day of dt.
fromordinal(n, dt) ==
    IF n < 7 THEN [dt EXCEPT !.y = 2023, !.m = 12, !.d = 25 + n]
    ELSE IF n < 38 THEN [dt EXCEPT !.y = 2024, !.m = 1, !.d = n - 6]
    ELSE [dt EXCEPT !.y = 2024, !.m = 2, !.d = n - 37]

\* A mutant of weekday: Monday is 1 and Sunday is 7, as isoweekday() has it.
isoweekday(dt) == (toordinal(dt) % 7) + 1

\* datetime.weekday(): Monday is 0 and Sunday is 6.
weekday(dt) == toordinal(dt) % 7

\* dt - timedelta(days=days)
MinusDays(dt, days) == fromordinal(toordinal(dt) - days, dt)

\* datetime.combine(dt.date(), datetime.min.time())
combine(dt) == [dt EXCEPT !.H = 0, !.M = 0, !.S = 0, !.us = 0]

\* datetime.isoformat(): "YYYY-MM-DDTHH:MM:SS", followed by ".ffffff" when the
\* microsecond is not 0.  Every field is written with a fixed number of
\* digits, so the text is held as the sequence of its fields.
isoformat(dt) ==
    <<dt.y, dt.m, dt.d, dt.H, dt.M, dt.S>> \o (IF dt.us # 0 THEN <<dt.us>> ELSE <<>>)

\* a >= b as SQLite compares two TEXT values: by the first place where they
\* differ, and a text is greater than each of its proper prefixes.
RECURSIVE TextGE(_, _)
TextGE(a, b) ==
    IF b = <<>> THEN TRUE
    ELSE IF a = <<>> THEN FALSE
    ELSE IF Head(a) # Head(b) THEN Head(a) > Head(b)
    ELSE TextGE(Tail(a), Tail(b))

\* CREATE TABLE expenses (id, amount REAL, category TEXT, timestamp TEXT)
Row(amount, category, timestamp) == [amount |-> amount, category |-> category, timestamp |-> timestamp]

\* What a method did: what it returned or raised, and the table it left.
Effect(o, rows) == [outcome |-> o, rows |-> rows]

\* ExpenseStorage.add_expense(self, amount, category, timestamp), called with
\* the positional arguments args.
add_expense(rows, args) ==
    IF Len(args) # 3
    THEN Effect(Threw("TypeError", <<Txt("ExpenseStorage.add_expense() takes 4 positional arguments")>>), rows)
    ELSE Effect(Gave(NoneV), Append(rows, Row(args[1], args[2], isoformat(args[3]))))

\* SUM(amount) over the rows of one category.
RECURSIVE SumAmount(_, _)
SumAmount(rows, category) ==
    IF rows = <<>> THEN 0
    ELSE (IF Head(rows).category = category THEN Head(rows).amount ELSE 0)
         + SumAmount(Tail(rows), category)

\* SELECT category, SUM(amount) FROM expenses WHERE timestamp >= ? GROUP BY
\* category, as the dict of its rows.
Select(rows, start) ==
    LET since == SelectSeq(rows, LAMBDA r : TextGE(r.timestamp, start))
    IN [c \in {since[i].category : i \in DOMAIN since} |-> SumAmount(since, c)]

\* ExpenseStorage.weekly_summary(self), called with the positional arguments
\* args when datetime.now() is now.
weekly_summary(rows, args, now) ==
    IF Len(args) # 0
    THEN Effect(Threw("TypeError", <<Txt("ExpenseStorage.weekly_summary() takes 1 positional argument")>>), rows)
    ELSE LET start_of_week == MinusDays(now, weekday(now))
             start_dt == combine(start_of_week)
         IN Effect(Gave(Select(rows, isoformat(start_dt))), rows)

\* The argument timestamp of the tool: None, the text "soon", or the
\* isoformat of a datetime.
NoTimestamp == [text |-> "None", dt |-> datetime(1, 1, 1, 0, 0, 0, 0)]
Soon == [text |-> "soon", dt |-> datetime(1, 1, 1, 0, 0, 0, 0)]
Iso(dt) == [text |-> "iso", dt |-> dt]

\* datetime.fromisoformat(timestamp)
fromisoformat(timestamp) ==
    IF timestamp.text = "soon" THEN Threw("ValueError", <<Txt("Invalid isoformat string: 'soon'")>>)
    ELSE Gave(timestamp.dt)

\* The tool handlers re-raise a ValueError as McpError; any other exception
\* leaves them as it is.
AsMcpError(o) ==
    IF o.kind = "raised" /\ o.exc = "ValueError" THEN Threw("McpError", o.msg) ELSE o

\* The tool add_expense(phone, amount, category, timestamp) of mcp_starter.py.
add_expense_tool(rows, phone, amount, category, timestamp, now) ==
    LET ts == IF timestamp = NoTimestamp THEN Gave(now) ELSE fromisoformat(timestamp)
    IN IF ts.kind = "raised" THEN Effect(AsMcpError(ts), rows)
       ELSE LET Recorded(e) ==
                    IF e.outcome.kind = "raised" THEN Effect(AsMcpError(e.outcome), e.rows)
                    ELSE Effect(Gave(StrV("Expense recorded")), e.rows)
            IN Recorded(add_expense(rows, <<phone, amount, category, ts.value>>))

\* The tool weekly_summary(phone) of mcp_starter.py.
weekly_summary_tool(rows, phone, now) ==
    LET Summed(e) == Effect(AsMcpError(e.outcome), e.rows)
    IN Summed(weekly_summary(rows, <<phone>>, now))

Moment(n, H, M, S, us) == fromordinal(n, datetime(2024, 1, 1, H, M, S, us))

\* The timestamps of the expenses: around the Mondays 2024-01-01 and
\* 2024-01-08.
Timestamps ==
    { Moment(6, 23, 59, 59, 0), Moment(7, 0, 0, 0, 0), Moment(13, 23, 59, 59, 999999),
      Moment(14, 0, 0, 0, 0), Moment(14, 0, 0, 0, 1) }

\* The times at which a summary is asked for.
Nows == { Moment(9, 12, 0, 0, 0), Moment(14, 0, 0, 0, 0), Moment(20, 23, 59, 59, 0), Moment(38, 8, 0, 0, 0) }

Phones == {"+15550000000", "+15556667777"}
ExpenseAmounts == {5, 25}
ExpenseCategories == {"food", "travel"}

\* What a call did: the function, its arguments, the time, the table before
\* it and what it returned or raised.
Called(fn, phone, args, now, before, o) ==
    [fn |-> fn, phone |-> phone, args |-> args, now |-> now, before |-> before, outcome |-> o]

ExpensesInit ==
    /\ NoExpenses
    /\ NoCalendar /\ NoSpotify /\ NoParsing /\ NoWalk
    /\ NoCall /\ NoSession /\ NoThreads /\ NoUtilities /\ NoNews
    /\ TablesInitial

OtherThanExpenses ==
    <<calcvars, tablevars, history, frames, alone, utilvars, newsvars, calendar, spotify, parsing, walk>>

\* A call made of the tool add_expense.
AddExpenseTool(phone, amount, category, timestamp, now) ==
    /\ Len(expense_calls) < MaxExpenseCalls
    /\ LET Then(e) ==
               /\ expense_rows' = e.rows
               /\ expense_calls' = Append(expense_calls,
                      Called("add_expense", phone, <<amount, category, timestamp>>, now, expense_rows, e.outcome))
       IN Then(add_expense_tool(expense_rows, phone, amount, category, timestamp, now))
    /\ UNCHANGED OtherThanExpenses

\* A call made of the tool weekly_summary.
WeeklySummaryTool(phone, now) ==
    /\ Len(expense_calls) < MaxExpenseCalls
    /\ LET Then(e) ==
               /\ expense_rows' = e.rows
               /\ expense_calls' = Append(expense_calls,
                      Called("weekly_summary", phone, <<>>, now, expense_rows, e.outcome))
       IN Then(weekly_summary_tool(expense_rows, phone, now))
    /\ UNCHANGED OtherThanExpenses

\* storage.add_expense(amount, category, timestamp), as the method is declared.
StorageAdd(amount, category, timestamp) ==
    /\ Len(expense_calls) < MaxExpenseCalls
    /\ LET Then(e) ==
               /\ expense_rows' = e.rows
               /\ expense_calls' = Append(expense_calls,
                      Called("ExpenseStorage.add_expense", "", <<amount, category, timestamp>>, timestamp, expense_rows, e.outcome))
       IN Then(add_expense(expense_rows, <<amount, category, timestamp>>))
    /\ UNCHANGED OtherThanExpenses

\* storage.weekly_summary(), as the method is declared.
StorageSummary(now) ==
    /\ Len(expense_calls) < MaxExpenseCalls
    /\ LET Then(e) ==
               /\ expense_rows' = e.rows
               /\ expense_calls' = Append(expense_calls,
                      Called("ExpenseStorage.weekly_summary", "", <<>>, now, expense_rows, e.outcome))
       IN Then(weekly_summary(expense_rows, <<>>, now))
    /\ UNCHANGED OtherThanExpenses

ExpensesNext ==
    \/ \E phone \in Phones, amount \in {25}, category \in {"food"},
          timestamp \in {NoTimestamp, Soon, Iso(Moment(14, 0, 0, 0, 0))}, now \in {Moment(20, 23, 59, 59, 0)} :
          AddExpenseTool(phone, amount, category, timestamp, now)
    \/ \E phone \in Phones, now \in {Moment(20, 23, 59, 59, 0)} : WeeklySummaryTool(phone, now)
    \/ \E amount \in ExpenseAmounts, category \in ExpenseCategories, timestamp \in Timestamps :
          StorageAdd(amount, category, timestamp)
    \/ \E now \in Nows : StorageSummary(now)

SpecExpenses == ExpensesInit /\ [][ExpensesNext]_vars

\* The calls of one function among those made so far.
CallsOf(fn) == { i \in DOMAIN expense_calls : expense_calls[i].fn = fn }

\* The call recorded an expense.
Recorded(j, fn) == expense_calls[j].fn = fn /\ expense_calls[j].outcome.kind = "returned"

\* C21: expenses are kept per user: a call of the tool weekly_summary(phone)
\* returns totals, and every category in them was recorded by an earlier call
\* of the tool add_expense for that same phone.
C21_SummaryIsPerPhone ==
    \A i \in CallsOf("weekly_summary") :
        /\ expense_calls[i].outcome.kind = "returned"
        /\ \A c \in DOMAIN expense_calls[i].outcome.value :
               \E j \in 1..(i - 1) :
                   /\ Recorded(j, "add_expense")
                   /\ expense_calls[j].phone = expense_calls[i].phone
                   /\ expense_calls[j].args[2] = c

\* The datetime is at or after 00:00 on the Monday of the week of now.
ThisWeek(dt, now) == toordinal(dt) >= toordinal(now) - (toordinal(now) % 7)

\* The expenses stored before call i whose timestamp is at or after 00:00 on
\* the Monday of the week in which call i is made.
StoredThisWeek(i) ==
    { j \in 1..(i - 1) :
        /\ Recorded(j, "ExpenseStorage.add_expense")
        /\ ThisWeek(expense_calls[j].args[3], expense_calls[i].now) }

\* The sum of the amounts of the expenses js.
RECURSIVE AmountOf(_)
AmountOf(js) ==
    IF js = {} THEN 0
    ELSE LET j == CHOOSE k \in js : TRUE
         IN expense_calls[j].args[1] + AmountOf(js \ {j})

MaxCalendarCalls == 2

Users == {"user1", "user2"}

\* The words of a message, and whether one of them is the word.
Message(ws) == [i \in DOMAIN ws |-> Txt(ws[i])]
Mentions(msg, word) == \E i \in DOMAIN msg : msg[i] = Txt(word)

\* What a tool did: what it returned or raised, the tokens it left, and the
\* requests it issued (calendar insert, calendar list, WhatsApp message).
Served(o, tokens, requests) == [outcome |-> o, tokens |-> tokens, requests |-> requests]

\* connect_calendar(user_id, token_json): json.loads gives a token of the
\* kind, or raises JSONDecodeError on "not json".
connect_calendar(tokens, user_id, token_json) ==
    IF token_json = "not json"
    THEN Served(Threw("McpError", Message(<<"Invalid", "token", "JSON">>)), tokens, <<>>)
    ELSE Served(Gave(Message(<<"Calendar", "connected">>)), [tokens EXCEPT ![user_id] = token_json], <<>>)

\* get_calendar_service(user_id): the service (TRUE) or None (FALSE), and
\* the tokens it leaves.  refreshed tells whether creds.refresh succeeds.
get_calendar_service(tokens, user_id, refreshed) ==
    LET token == tokens[user_id]
    IN IF token \in {"none", "empty"} THEN [service |-> FALSE, tokens |-> tokens]
       ELSE IF token = "malformed" THEN [service |-> FALSE, tokens |-> tokens]
       ELSE IF token = "expired"
       THEN IF refreshed
            THEN [service |-> TRUE, tokens |-> [tokens EXCEPT ![user_id] = "valid"]]
            ELSE [service |-> FALSE, tokens |-> tokens]
       ELSE [service |-> TRUE, tokens |-> tokens]

\* send_whatsapp_reminder(summary, start_iso): a message is created when the
\* Twilio credentials are configured; an exception of Twilio is swallowed.
send_whatsapp_reminder(twilio) == IF twilio THEN <<"whatsapp">> ELSE <<>>

\* add_event(user_id, title, date, time).  inserted is what the insert
\* request gives: "id", "none" or "error".
add_event(tokens, user_id, summary, date, refreshed, inserted, twilio) ==
    LET With(s) ==
            IF ~s.service
            THEN Served(Threw("McpError", Message(<<"Calendar", "not", "authorized">>)), s.tokens, <<>>)
            ELSE IF date # "2025-01-01"
            THEN Served(Threw("ValueError", Message(<<"time", "data", "does", "not", "match", "format">>)), s.tokens, <<>>)
            ELSE IF inserted = "error"
            THEN Served(Threw("HttpError", <<>>), s.tokens, <<"insert">>)
            ELSE Served(Gave(<<Txt("Event '"), Str(StrV(summary)), Txt("' scheduled for "), Txt(date)>>
                             \o (IF inserted = "id" THEN <<Txt(" (id: "), Txt("id"), Txt(")")>> ELSE <<>>)),
                        s.tokens, <<"insert">> \o send_whatsapp_reminder(twilio))
    IN With(get_calendar_service(tokens, user_id, refreshed))

\* upcoming_events(user_id, count).  listed is what the list request gives:
\* "items", "none" or "error".
upcoming_events(tokens, user_id, refreshed, listed) ==
    LET With(s) ==
            IF ~s.service
            THEN Served(Threw("McpError", Message(<<"Calendar", "not", "authorized">>)), s.tokens, <<>>)
            ELSE IF listed = "error"
            THEN Served(Threw("HttpError", <<>>), s.tokens, <<"list">>)
            ELSE IF listed = "none"
            THEN Served(Gave(Message(<<"No", "upcoming", "events", "found.">>)), s.tokens, <<"list">>)
            ELSE Served(Gave(<<Txt("- "), Txt("2025-01-01 09:00 UTC"), Txt(" "), Txt("Test Event")>>), s.tokens, <<"list">>)
    IN With(get_calendar_service(tokens, user_id, refreshed))

\* A call of a calendar tool: the tool, the user, the tokens before it and
\* what it did.
CalendarCall(tool, user_id, before, s) ==
    [tool |-> tool, user |-> user_id, before |-> before, outcome |-> s.outcome, requests |-> s.requests]

CalendarInit ==
    /\ calendar = [made |-> TRUE, tokens |-> [u \in Users |-> "none"], calls |-> <<>>]
    /\ NoExpenses /\ NoSpotify /\ NoParsing /\ NoWalk
    /\ NoCall /\ NoSession /\ NoThreads /\ NoUtilities /\ NoNews
    /\ TablesInitial

OtherThanCalendar ==
    <<calcvars, tablevars, history, frames, alone, utilvars, newsvars, expense_rows, expense_calls, spotify, parsing, walk>>

\* The tool has done s.
CalendarDid(tool, user_id, s) ==
    /\ Len(calendar.calls) < MaxCalendarCalls
    /\ calendar' = [calendar EXCEPT !.tokens = s.tokens,
                                    !.calls = Append(@, CalendarCall(tool, user_id, calendar.tokens, s))]
    /\ UNCHANGED OtherThanCalendar

ConnectCalendar(user_id, token_json) ==
    CalendarDid("connect_calendar", user_id, connect_calendar(calendar.tokens, user_id, token_json))

AddEvent(user_id, summary, date, refreshed, inserted, twilio) ==
    CalendarDid("add_event", user_id, add_event(calendar.tokens, user_id, summary, date, refreshed, inserted, twilio))

UpcomingEvents(user_id, refreshed, listed) ==
    CalendarDid("upcoming_events", user_id, upcoming_events(calendar.tokens, user_id, refreshed, listed))

CalendarNext ==
    \/ \E user_id \in Users, token_json \in {"empty", "malformed", "expired", "valid", "not json"} :
          ConnectCalendar(user_id, token_json)
    \/ \E user_id \in Users, date \in {"2025-01-01", "2025-13-01"}, refreshed \in BOOLEAN,
          inserted \in {"id", "none", "error"}, twilio \in BOOLEAN :
          AddEvent(user_id, "Meeting", date, refreshed, inserted, twilio)
    \/ \E user_id \in Users, refreshed \in BOOLEAN, listed \in {"items", "none", "error"} :
          UpcomingEvents(user_id, refreshed, listed)

SpecCalendar == CalendarInit /\ [][CalendarNext]_vars

\* The call found no calendar service for its user.
Unauthorized(c) ==
    /\ c.tool \in {"add_event", "upcoming_events"}
    /\ c.outcome.kind = "raised" /\ c.outcome.exc = "McpError"

\* C23: when get_calendar_service returns None, add_event and upcoming_events
\* raise McpError whose message tells the user to use connect_calendar, and
\* they issue no calendar request and no WhatsApp reminder.
C23_UnauthorizedTellsToConnect ==
    calendar # Idle =>
        \A i \in DOMAIN calendar.calls :
            LET c == calendar.calls[i]
            IN (c.tool \in {"add_event", "upcoming_events"} /\ c.before[c.user] \in {"none", "empty", "malformed"}) =>
                   /\ Unauthorized(c)
                   /\ c.requests = <<>>
                   /\ Mentions(c.outcome.msg, "connect_calendar")

\* The call split_bill(total, num_people, tip_percent) that dispatch made for
\* the query, if it made one: the three numbers and what split_bill gave.
SplitCall ==
    LET args == Tail(Split(query))
    IN [total |-> float(OneWord(args[1])).value,
        num_people |-> int(OneWord(args[2])).value,
        tip_percent |-> float(OneWord(args[3])).value,
        gave |-> answer.gave]

\* dispatch called split_bill (and not a stub in its place).
SplitCalled ==
    /\ answer # NoAnswer
    /\ Split(query) # <<>>
    /\ Command = "split"
    /\ answer.gave.kind # "none"
    /\ ~(answer.gave.kind = "raised" /\ answer.gave.exc = "RuntimeError")

\* (total + total * tip_percent / 100) / num_people, as a fraction.
Share(total, num_people, tip_percent) ==
    FloatV(total.n * ((100 * tip_percent.d) + tip_percent.n),
           total.d * 100 * tip_percent.d * num_people.n)

\* C24: split_bill raises ValueError when num_people <= 0, and otherwise when
\* total < 0 or tip_percent < 0; for all other inputs it returns
\* (total + total * tip_percent / 100) / num_people.
C24_SplitBillReturnsShare ==
    SplitCalled =>
        LET c == SplitCall
        IN IF c.num_people # HugeInt /\ c.num_people.n <= 0
           THEN c.gave.kind = "raised" /\ c.gave.exc = "ValueError"
           ELSE IF Negative(c.total) \/ Negative(c.tip_percent)
           THEN c.gave.kind = "raised" /\ c.gave.exc = "ValueError"
           ELSE /\ c.gave.kind = "returned"
                /\ c.num_people # HugeInt => c.gave.value = Share(c.total, c.num_people, c.tip_percent)

(***************************************************************************)
(* expense_tracker.py, parse_expense_message(message, now).  A message is  *)
(* the sequence of its characters; the three regular expressions are       *)
(* searched as re.search does, from the leftmost position that matches.    *)
(***************************************************************************)

\* The most phrases of a message.
MaxPhrases == 3

Capitals == [S |-> "s", O |-> "o", Y |-> "y", L |-> "l"]
Small == {"a", "c", "d", "e", "h", "l", "n", "o", "p", "r", "s", "t", "u", "y"}

\* The classes \d (also [0-9]), [A-Za-z] and \s.
Is(class, c) ==
    IF class = "digit" THEN \E k \in DOMAIN Digits : Digits[k] = c
    ELSE IF class = "alpha" THEN c \in Small \/ c \in DOMAIN Capitals
    ELSE c = " "

\* The character at place i, or "" past the end.
CharAt(message, i) == IF i \in DOMAIN message THEN message[i] ELSE ""

\* The place after the longest run of the class that starts at place i.
RECURSIVE Run(_, _, _)
Run(message, i, class) ==
    IF i \in DOMAIN message /\ Is(class, message[i]) THEN Run(message, i + 1, class) ELSE i

\* str.lower() of a character and of a text.
LowerChar(c) == IF c \in DOMAIN Capitals THEN Capitals[c] ELSE c
Lowered(message) == [i \in DOMAIN message |-> LowerChar(message[i])]

\* The characters from place i up to, not including, place j.
Slice(message, i, j) == SubSeq(message, i, j - 1)

\* int() of a run of digits.
RECURSIVE ToInt(_)
ToInt(ds) ==
    IF ds = <<>> THEN 0
    ELSE (10 * ToInt(SubSeq(ds, 1, Len(ds) - 1)))
         + ((CHOOSE k \in DOMAIN Digits : Digits[k] = ds[Len(ds)]) - 1)

RECURSIVE TenTo(_)
TenTo(k) == IF k = 0 THEN 1 ELSE 10 * TenTo(k - 1)

\* A match of a regular expression: found, and the text of its group 1.
NoMatch == [found |-> FALSE, group |-> <<>>]
Match(group) == [found |-> TRUE, group |-> group]

\* re.search(r"₹?\s*([0-9]+(?:\.[0-9]+)?)", message): the optional sign and
\* blanks match the empty text, so the group starts at the first digit.
RECURSIVE amount_match(_, _)
amount_match(message, i) ==
    IF i > Len(message) THEN NoMatch
    ELSE IF ~Is("digit", message[i]) THEN amount_match(message, i + 1)
    ELSE LET whole == Run(message, i, "digit")
             fraction == Run(message, whole + 1, "digit")
         IN IF CharAt(message, whole) = "." /\ fraction > whole + 1
            THEN Match(Slice(message, i, fraction))
            ELSE Match(Slice(message, i, whole))

\* re.search(r"on\s+([A-Za-z]+)", message)
RECURSIVE category_match(_, _)
category_match(message, i) ==
    IF i > Len(message) THEN NoMatch
    ELSE LET blanks == Run(message, i + 2, "space")
             letters == Run(message, blanks, "alpha")
         IN IF /\ CharAt(message, i) = "o" /\ CharAt(message, i + 1) = "n"
               /\ blanks > i + 2 /\ letters > blanks
            THEN Match(Slice(message, blanks, letters))
            ELSE category_match(message, i + 1)

\* re.search(r"(\d{4}-\d{2}-\d{2})", message)
RECURSIVE date_match(_, _)
date_match(message, i) ==
    IF i > Len(message) THEN NoMatch
    ELSE IF /\ \A k \in {0, 1, 2, 3, 5, 6, 8, 9} : Is("digit", CharAt(message, i + k))
            /\ CharAt(message, i + 4) = "-" /\ CharAt(message, i + 7) = "-"
         THEN Match(Slice(message, i, i + 10))
         ELSE date_match(message, i + 1)

\* "yesterday" in text
RECURSIVE Contains(_, _, _)
Contains(text, word, i) ==
    IF i + Len(word) - 1 > Len(text) THEN FALSE
    ELSE Slice(text, i, i + Len(word)) = word \/ Contains(text, word, i + 1)

\* The days of month m of year y.
DaysIn(y, m) ==
    IF m = 2 THEN (IF (y % 4 = 0 /\ y % 100 # 0) \/ y % 400 = 0 THEN 29 ELSE 28)
    ELSE IF m \in {4, 6, 9, 11} THEN 30 ELSE 31

\* datetime.fromisoformat("YYYY-MM-DD"): midnight of the day, or ValueError
\* when the text names no day of the calendar.
fromisoformat_date(text) ==
    LET y == ToInt(Slice(text, 1, 5))
        m == ToInt(Slice(text, 6, 8))
        d == ToInt(Slice(text, 9, 11))
    IN IF y >= 1 /\ m \in 1..12 /\ d >= 1 /\ d <= DaysIn(y, m)
       THEN Gave(datetime(y, m, d, 0, 0, 0, 0))
       ELSE Threw("ValueError", <<Txt("day or month out of range")>>)

\* float() of the text of a number: digits, with or without a fraction.
float_of(text) ==
    LET whole == Run(text, 1, "digit")
    IN IF whole > Len(text) THEN FloatV(ToInt(text), 1)
       ELSE FloatV((ToInt(Slice(text, 1, whole)) * TenTo(Len(text) - whole))
                       + ToInt(Slice(text, whole + 1, Len(text) + 1)),
                   TenTo(Len(text) - whole))

Yesterday == <<"y", "e", "s", "t", "e", "r", "d", "a", "y">>

\* A mutant of parse_date: the word yesterday is looked for before the date.
parse_date_yesterday_first(message, found, now) ==
    IF Contains(Lowered(message), Yesterday, 1) THEN Gave(MinusDays(now, 1))
    ELSE IF found.found THEN fromisoformat_date(found.group)
    ELSE Gave(now)

\* The date of the expense (lines 115-120).
parse_date(message, found, now) ==
    IF found.found THEN fromisoformat_date(found.group)
    ELSE IF Contains(Lowered(message), Yesterday, 1) THEN Gave(MinusDays(now, 1))
    ELSE Gave(now)

parse_expense_message(message, now) ==
    LET amount == amount_match(message, 1)
        category == category_match(message, 1)
    IN IF ~amount.found \/ ~category.found
       THEN Threw("ValueError", <<Txt("Could not parse expense message")>>)
       ELSE LET Dated(date) ==
                    IF date.kind = "raised" THEN date
                    ELSE Gave(<<float_of(amount.group), Lowered(category.group), date.value>>)
            IN Dated(parse_date(message, date_match(message, 1), now))

\* The phrases of the messages, each with its characters.
Spent == <<"S", "p", "e", "n", "t">>
Rupees250 == <<"₹", "2", "5", "0">>
Twelve5 == <<"1", "2", ".", "5">>
OnLunch == <<"o", "n", " ", "l", "u", "n", "c", "h">>
OnLunchCapital == <<"o", "n", " ", " ", "L", "u", "n", "c", "h">>
CapitalOnLunch == <<"O", "n", " ", "l", "u", "n", "c", "h">>
On7up == <<"o", "n", " ", "7", "u", "p">>
SalonToday == <<"s", "a", "l", "o", "n", " ", "t", "o", "d", "a", "y">>
Jan5 == <<"2", "0", "2", "4", "-", "0", "1", "-", "0", "5">>
Feb29 == <<"2", "0", "2", "3", "-", "0", "2", "-", "2", "9">>
YesterdayCapital == <<"Y", "e", "s", "t", "e", "r", "d", "a", "y">>

Phrases ==
    { Spent, Rupees250, Twelve5, OnLunch, OnLunchCapital, CapitalOnLunch, On7up, SalonToday,
      Jan5, Feb29, Yesterday, YesterdayCapital }

\* The phrases one after another, a blank between two of them.
RECURSIVE Sentence(_)
Sentence(phrases) ==
    IF phrases = <<>> THEN <<>>
    ELSE IF Len(phrases) = 1 THEN phrases[1]
    ELSE phrases[1] \o <<" ">> \o Sentence(Tail(phrases))

Messages == UNION { [1..n -> Phrases] : n \in 0..MaxPhrases }

ParsingInit ==
    /\ \E phrases \in Messages, now \in {Moment(7, 0, 30, 0, 0), Moment(14, 15, 0, 0, 5)} :
          parsing = [made |-> TRUE, phrases |-> phrases, message |-> Sentence(phrases), now |-> now,
                     outcome |-> NotCalled]
    /\ NoExpenses /\ NoCalendar /\ NoSpotify /\ NoWalk
    /\ NoCall /\ NoSession /\ NoThreads /\ NoUtilities /\ NoNews
    /\ TablesInitial

\* The call parse_expense_message(message, now=now).
ParseExpenseMessage ==
    /\ parsing.outcome = NotCalled
    /\ parsing' = [parsing EXCEPT !.outcome = parse_expense_message(parsing.message, parsing.now)]
    /\ UNCHANGED <<calcvars, tablevars, history, frames, alone, utilvars, newsvars,
                   expense_rows, expense_calls, calendar, spotify, walk>>

ParsingNext == ParseExpenseMessage

SpecParsing == ParsingInit /\ [][ParsingNext]_vars

\* What is written in a message, read off its phrases.  The first number of
\* a phrase, if it has one: a date starts with the number of its year.
NumberOf(phrase) ==
    IF phrase = Rupees250 THEN <<FloatV(250, 1)>>
    ELSE IF phrase = Twelve5 THEN <<FloatV(25, 2)>>
    ELSE IF phrase = On7up THEN <<FloatV(7, 1)>>
    ELSE IF phrase = Jan5 THEN <<FloatV(2024, 1)>>
    ELSE IF phrase = Feb29 THEN <<FloatV(2023, 1)>>
    ELSE <<>>

\* The word after "on" and blanks, in small letters, if the phrase has one.
CategoryOf(phrase) ==
    IF phrase \in {OnLunch, OnLunchCapital} THEN <<<<"l", "u", "n", "c", "h">>>>
    ELSE IF phrase = SalonToday THEN <<<<"t", "o", "d", "a", "y">>>>
    ELSE <<>>

\* The place of the first phrase of the kind, or 0.
FirstOf(places) == IF places = {} THEN 0 ELSE CHOOSE i \in places : \A j \in places : i <= j

Amounts25 == FirstOf({ i \in DOMAIN parsing.phrases : NumberOf(parsing.phrases[i]) # <<>> })
Categories25 == FirstOf({ i \in DOMAIN parsing.phrases : CategoryOf(parsing.phrases[i]) # <<>> })
Dates25 == FirstOf({ i \in DOMAIN parsing.phrases : parsing.phrases[i] \in {Jan5, Feb29} })
Days25 == FirstOf({ i \in DOMAIN parsing.phrases : parsing.phrases[i] = Jan5 })
SaysYesterday == \E i \in DOMAIN parsing.phrases : parsing.phrases[i] \in {Yesterday, YesterdayCapital}

\* The day before now, at the same time of day.
DayBefore(now) == IF now.d > 1 THEN [now EXCEPT !.d = now.d - 1] ELSE [now EXCEPT !.y = 2023, !.m = 12, !.d = 31]

\* parse_expense_message was called.
MessageParsed == parsing # Idle /\ parsing.outcome # NotCalled

\* The call returned the amount and the category of the message, with the date.
ReturnedWith(date) ==
    /\ parsing.outcome.kind = "returned"
    /\ parsing.outcome.value =
           <<NumberOf(parsing.phrases[Amounts25])[1], CategoryOf(parsing.phrases[Categories25])[1], date>>

\* The date when the message has no YYYY-MM-DD text.
Undated == IF SaysYesterday THEN DayBefore(parsing.now) ELSE parsing.now

RaisedValueError == parsing.outcome.kind = "raised" /\ parsing.outcome.exc = "ValueError"

\* C25 as stated: a message with an amount and an "on <word>" category gives
\* (amount, category, date), the date being the explicit date of the message
\* if it has one, else the day before now if it says yesterday, else now; a
\* message without amount or without category raises ValueError.
C25_ParsedOrValueError ==
    MessageParsed =>
        IF Amounts25 = 0 \/ Categories25 = 0 THEN RaisedValueError
        ELSE IF Days25 # 0 THEN ReturnedWith(datetime(2024, 1, 5, 0, 0, 0, 0))
        ELSE ReturnedWith(Undated)

\* C25, amended: the date is read from the first YYYY-MM-DD text of the
\* message, and a message whose first such text names no day of the calendar
\* raises ValueError like one without amount or category.
C25_ParsedOrValueErrorAlsoOnBadDate ==
    MessageParsed =>
        IF Amounts25 = 0 \/ Categories25 = 0 THEN RaisedValueError
        ELSE IF Dates25 = 0 THEN ReturnedWith(Undated)
        ELSE IF parsing.phrases[Dates25] = Jan5 THEN ReturnedWith(datetime(2024, 1, 5, 0, 0, 0, 0))
        ELSE RaisedValueError

\* "2024-01-05 on  Lunch Yesterday" parsed on 2024-01-01: the first number is
\* the amount, the category is in small letters, the explicit date wins.
C25_Witness ==
    /\ MessageParsed
    /\ parsing.phrases = <<Jan5, OnLunchCapital, YesterdayCapital>>
    /\ parsing.now = Moment(7, 0, 30, 0, 0)
    /\ parsing.outcome = Gave(<<FloatV(2024, 1), <<"l", "u", "n", "c", "h">>, datetime(2024, 1, 5, 0, 0, 0, 0)>>)

\* C26: every expression that holds a binary operator other than + - * / %
\* and power, a unary operator other than + and -, or a node that is no
\* literal, identifier, unary op, binary op or call fails; when the
\* expression itself is the unsupported binary operation, it fails before any
\* of its operands is evaluated.
C26_UnsupportedConstructFails ==
    (Done /\ Tree.ok /\ Scan(Tree.node, "construct")) =>
        /\ Failed
        /\ (Tree.node.kind = "BinOp" /\ ~OperatorAllowed(Tree.node.op)) => invoked = <<>>

\* The arguments evaluated one by one from the left, each on its own, up to
\* the first that fails: whether all succeeded, their values, and the
\* routines they invoked, in that order.
RECURSIVE InOrder(_, _, _, _)
InOrder(args, i, vals, log) ==
    IF i > Len(args) THEN [st |-> "ok", vals |-> vals, log |-> log]
    ELSE LET After(r) ==
                 IF r.st = "ok" THEN InOrder(args, i + 1, Append(vals, r.v), log \o r.log)
                 ELSE [st |-> r.st, vals |-> <<>>, log |-> log \o r.log]
         IN  After(_eval(args[i], <<>>))

\* The expression is a call, and the call of scientific_calculator is done.
CallDone == Done /\ Tree.ok /\ Tree.node.kind = "Call"

RecursionLimit == 3

\* The child of the node that _eval evaluates k-th.
Child(node, k) ==
    IF node.kind = "UnaryOp" THEN node.operand
    ELSE IF node.kind = "BinOp" THEN (IF k = 1 THEN node.left ELSE node.right)
    ELSE CallArguments(node)[k]

RECURSIVE NodeAt(_, _)
NodeAt(node, path) ==
    IF path = <<>> THEN node ELSE NodeAt(Child(node, Head(path)), Tail(path))

\* The frame of _eval(node): the node's path and the values of the children
\* evaluated so far.
EvalFrame(path) == [path |-> path, vals |-> <<>>]

\* What the frame does next.
CallEval(k) == [do |-> "call", child |-> k, v |-> NoValue, err |-> "", log |-> <<>>]
ReturnValue(v, log) == [do |-> "return", child |-> 0, v |-> v, err |-> "", log |-> log]
RaiseFrom(err, log) == [do |-> "raise", child |-> 0, v |-> NoValue, err |-> err, log |-> log]
NotSettled(log) == [do |-> "undecided", child |-> 0, v |-> NoValue, err |-> "", log |-> log]

\* The result of an operator or of a host routine, as what the frame does.
Settle(r) ==
    IF r.st = "ok" THEN ReturnValue(r.v, r.log)
    ELSE IF r.st = "err" THEN RaiseFrom(r.err, r.log)
    ELSE NotSettled(r.log)

\* The next thing _eval(node) does once vals are the values of its children
\* evaluated so far (lines 183-202).
Advance(node, vals) ==
    IF node.kind = "Constant" THEN ReturnValue(node.value, <<>>)
    ELSE IF node.kind = "UnaryOp" /\ node.op \in {"UAdd", "USub"}
    THEN IF Len(vals) = 0 THEN CallEval(1)
         ELSE Settle(WithLog(ApplyUnary(node.op, vals[1]), <<>>))
    ELSE IF node.kind = "BinOp"
    THEN IF ~OperatorAllowed(node.op) THEN RaiseFrom("ValueError: Unsupported operator.", <<>>)
         ELSE IF Len(vals) < 2 THEN CallEval(Len(vals) + 1)
         ELSE Settle(WithLog(ApplyOperator(node.op, vals[1], vals[2]), <<>>))
    ELSE IF node.kind = "Call"
    THEN IF ~CallTargetAllowed(node.func) THEN RaiseFrom("ValueError: Function not allowed.", <<>>)
         ELSE IF Len(vals) < Len(CallArguments(node)) THEN CallEval(Len(vals) + 1)
         ELSE Settle(Invoke(node.func.id[1], vals, <<>>))
    ELSE IF NameAllowed(node) THEN ReturnValue(allowed_names[node.id[1]], <<>>)
    ELSE RaiseFrom("ValueError: Invalid expression.", <<>>)

\* A mutant of Delivered: the value of the child is dropped.
Dropped(frame, v) == frame

\* The frame that called _eval on a child, once the child has returned v.
Delivered(frame, v) == [frame EXCEPT !.vals = Append(@, v)]

\* The expressions walked: nestings of 1 to 5 nodes, calls, failures of every
\* kind, and all x op y op z over two literals and four operators.
WalkInputs ==
    { <<"2">>, <<"-", "2">>, <<"-", "-", "2">>, <<"-", "-", "-", "2">>, <<"-", "+", "-", "-", "2">>,
      <<"pi">>, <<"foo">>, <<"2", " ", "+">>, <<>>, <<"~", "2">>,
      <<"sin", "(", "0", ")">>, <<"pow", "(", "2", ",", "3", ")">>,
      <<"pow", "(", "sin", "(", "0", ")", ",", "foo", ")">>,
      <<"pow", "(", "foo", ",", "sin", "(", "0", ")", ")">>,
      <<"foo", "(", "sin", "(", "0", ")", ")">>,
      <<"sqrt", "(", "4", ",", " ", "5", ")">>,
      <<"sqrt", "(", "4", ",", "k", "=", "-", "-", "-", "-", "2", ")">>,
      <<"sin", "(", "sin", "(", "0", ")", ")">>,
      <<"sin", "(", "sin", "(", "sin", "(", "0", ")", ")", ")">>,
      <<"sin", "(", "0", ")", "/", "/", "2">>,
      <<"2", "/", "0">>, <<"2", "/", "(", "1", "-", "1", ")">>,
      <<"(", "1", "+", "2", ")", "*", "(", "3", "-", "1", ")">> }
    \cup { x \o o1 \o y \o o2 \o z :
              x \in {<<"1">>, <<"2">>}, y \in {<<"1">>, <<"2">>}, z \in {<<"1">>, <<"2">>},
              o1 \in {<<"+">>, <<"*">>, <<"*", "*">>, <<"/", "/">>},
              o2 \in {<<"+">>, <<"*">>, <<"*", "*">>, <<"/", "/">>} }

WalkInit ==
    /\ \E a \in WalkInputs :
          walk = [made |-> TRUE, expression |-> a, parsed |-> ast_parse(a), pc |-> "parse",
                  stack |-> <<>>, visited |-> <<>>, invoked |-> <<>>, outcome |-> NoOutcome]
    /\ NoExpenses /\ NoCalendar /\ NoSpotify /\ NoParsing
    /\ NoCall /\ NoSession /\ NoThreads /\ NoUtilities /\ NoNews
    /\ TablesInitial

OtherThanWalk ==
    <<calcvars, tablevars, history, frames, alone, utilvars, newsvars, expense_rows, expense_calls,
      calendar, spotify, parsing>>

\* The call has ended with the outcome.
Ended(o) == [walk EXCEPT !.pc = "done", !.stack = <<>>, !.outcome = o]

\* The tree that ast.parse gives for the expression (parsed holds it from
\* the start, SyntaxError included), the frame on top of the stack, and what
\* it does next.
WalkTree == walk.parsed.node
Top == walk.stack[Len(walk.stack)]
Doing == Advance(NodeAt(WalkTree, Top.path), Top.vals)
Walking == walk # Idle /\ walk.pc = "eval"

\* node = ast.parse(expression, mode="eval"), and the call _eval(node.body).
WalkParse ==
    /\ walk # Idle /\ walk.pc = "parse"
    /\ walk' = IF ~walk.parsed.ok THEN Ended(ReRaise("SyntaxError"))
               ELSE [walk EXCEPT !.pc = "eval", !.stack = <<EvalFrame(<<>>)>>, !.visited = <<<<>>>>]
    /\ UNCHANGED OtherThanWalk

\* _eval calls itself on a child: a frame more on the stack.
Descend ==
    /\ Walking /\ Doing.do = "call" /\ Len(walk.stack) < RecursionLimit
    /\ walk' = [walk EXCEPT !.stack = Append(@, EvalFrame(Append(Top.path, Doing.child))),
                            !.visited = Append(@, Append(Top.path, Doing.child))]
    /\ UNCHANGED OtherThanWalk

\* _eval calls itself with no frame left: RecursionError, which no frame of
\* _eval catches and scientific_calculator re-raises.
Overflow ==
    /\ Walking /\ Doing.do = "call" /\ Len(walk.stack) >= RecursionLimit
    /\ walk' = Ended(ReRaise("RecursionError"))
    /\ UNCHANGED OtherThanWalk

\* _eval returns: to the frame below, or to scientific_calculator.
Return ==
    /\ Walking /\ Doing.do \in {"return", "undecided"}
    /\ walk' = IF Doing.do = "undecided" THEN [Ended(Undecided) EXCEPT !.invoked = @ \o Doing.log]
               ELSE IF Len(walk.stack) = 1
               THEN [Ended(Returned(Doing.v)) EXCEPT !.invoked = @ \o Doing.log]
               ELSE [walk EXCEPT !.stack = Append(SubSeq(@, 1, Len(@) - 2),
                                                   Delivered(walk.stack[Len(walk.stack) - 1], Doing.v)),
                                 !.invoked = @ \o Doing.log]
    /\ UNCHANGED OtherThanWalk

\* _eval raises: the exception unwinds every frame and is re-raised.
RaiseUp ==
    /\ Walking /\ Doing.do = "raise"
    /\ walk' = [Ended(ReRaise(Doing.err)) EXCEPT !.invoked = @ \o Doing.log]
    /\ UNCHANGED OtherThanWalk

WalkNext == WalkParse \/ Descend \/ Overflow \/ Return \/ RaiseUp

SpecWalk == WalkInit /\ [][WalkNext]_vars /\ WF_vars(WalkNext)

\* The call of scientific_calculator has ended.
WalkDone == walk # Idle /\ walk.pc = "done"

\* No node is visited twice: the paths of the frames pushed are all different.
VisitedOnce ==
    \A i \in DOMAIN walk.visited : \A j \in DOMAIN walk.visited :
        walk.visited[i] = walk.visited[j] => i = j

\* The call ended with a value or with ValueError, no frame left.
Ended28 ==
    /\ walk.stack = <<>>
    /\ walk.outcome.kind \in {"returned", "raised"}
    /\ walk.outcome.kind = "raised" => walk.outcome.exc = "ValueError"

MaxTasks == 2

\* The most tokens the accounts service issues in one run.
MaxIssued == 4

Tasks == 1..MaxTasks

\* What a call did: a request sent with a token, a refresh that gave a
\* token, a refresh that gave none.
Sent(token) == [op |-> "request", token |-> token, ok |-> TRUE]
Refreshing(token) == [op |-> "refresh", token |-> token, ok |-> TRUE]
NoToken == [op |-> "refresh", token |-> -1, ok |-> FALSE]

\* A call: where it is, the token it found held, its Authorization header,
\* what it did in order, the statuses it got, and how it ended.
NotStarted ==
    [pc |-> "start", held |-> -1, headers |-> -1, did |-> <<>>, got |-> <<>>, outcome |-> ""]

\* A mutant of Authorization: the header keeps the token it had.
StaleAuthorization(headers, token) == IF headers = -1 THEN token ELSE headers

\* headers["Authorization"] = f"Bearer {_ACCESS_TOKEN}"
Authorization(headers, token) == token

\* resp = await client.request(method, url, headers=headers, **kwargs)
Request(task, token, then) ==
    [task EXCEPT !.headers = Authorization(task.headers, token),
                 !.did = Append(@, Sent(Authorization(task.headers, token))),
                 !.pc = then]

\* The call ends: it returns the response, or an exception leaves it.
Finished(task, o) == [task EXCEPT !.pc = "done", !.outcome = o]

SpotifyInit ==
    /\ \E token \in {-1, 0}, module \in {"mcp_spotify", "mcp_starter"}, credentials \in BOOLEAN :
          \* only mcp_starter.py looks at the credentials before it posts
          /\ module = "mcp_spotify" => credentials
          /\ spotify = [made |-> TRUE, module |-> module, credentials |-> credentials, token |-> token,
                     issued |-> 0, tasks |-> [t \in Tasks |-> NotStarted]]
    /\ NoExpenses /\ NoCalendar /\ NoParsing /\ NoWalk
    /\ NoCall /\ NoSession /\ NoThreads /\ NoUtilities /\ NoNews
    /\ TablesInitial

OtherThanSpotify ==
    <<calcvars, tablevars, history, frames, alone, utilvars, newsvars, expense_rows, expense_calls,
      calendar, parsing, walk>>

\* _refresh_access_token up to its await: mcp_starter.py first checks that
\* the credentials are configured; then the token request is posted.
Refresh(task, then) ==
    IF spotify.module = "mcp_starter" /\ ~spotify.credentials
    THEN Finished([task EXCEPT !.did = Append(@, NoToken)], "McpError")
    ELSE [task EXCEPT !.pc = then]

\* The call starts: without a token it refreshes first, with one it sends
\* the request.
Start(t) ==
    /\ spotify # Idle /\ spotify.tasks[t].pc = "start"
    /\ LET task == [spotify.tasks[t] EXCEPT !.held = spotify.token]
       IN spotify' = [spotify EXCEPT !.tasks[t] =
                          IF spotify.token = -1 THEN Refresh(task, "refreshing1")
                          ELSE Request(task, spotify.token, "requesting1")]
    /\ UNCHANGED OtherThanSpotify

\* The accounts service answers a refresh: a new token ("ok"), a body whose
\* access_token is null ("null"), a status other than 200 ("denied"), a body
\* without access_token ("malformed"), or no answer ("down").  With what
\* access_token holds the call sends its request.
Refreshed(t, result) ==
    /\ spotify # Idle /\ spotify.tasks[t].pc \in {"refreshing1", "refreshing2"}
    /\ result = "ok" => spotify.issued < MaxIssued
    /\ LET task == spotify.tasks[t]
           new == IF result = "ok" THEN spotify.issued + 1 ELSE -1
           next == IF task.pc = "refreshing1" THEN "requesting1" ELSE "requesting2"
       IN spotify' =
              IF result \in {"ok", "null"}
              THEN [spotify EXCEPT !.token = new, !.issued = IF result = "ok" THEN new ELSE @,
                                   !.tasks[t] = Request([task EXCEPT !.did = Append(@, Refreshing(new))], new, next)]
              ELSE [spotify EXCEPT !.tasks[t] =
                        Finished([task EXCEPT !.did = Append(@, NoToken)],
                                 IF result = "denied" THEN "McpError"
                                 ELSE IF result = "malformed" THEN "KeyError" ELSE "ConnectError")]
    /\ UNCHANGED OtherThanSpotify

\* The API answers a request with a status, or not at all (0).  A 401 to the
\* first request starts a refresh; any other answer, and any answer to the
\* second request, is returned.
Responded(t, status) ==
    /\ spotify # Idle /\ spotify.tasks[t].pc \in {"requesting1", "requesting2"}
    /\ LET task == [spotify.tasks[t] EXCEPT !.got = Append(@, status)]
       IN spotify' = [spotify EXCEPT !.tasks[t] =
                          IF status = 0 THEN Finished(task, "ConnectError")
                          ELSE IF status = 401 /\ task.pc = "requesting1" THEN Refresh(task, "refreshing2")
                          ELSE Finished(task, "returned")]
    /\ UNCHANGED OtherThanSpotify

SpotifyNext ==
    \E t \in Tasks :
        \/ Start(t)
        \/ \E result \in {"ok", "null", "denied", "malformed", "down"} : Refreshed(t, result)
        \/ \E status \in {200, 401, 0} : Responded(t, status)

SpecSpotify == SpotifyInit /\ [][SpotifyNext]_vars

\* The requests a call sent and the refreshes it made.
Requests(task) == SelectSeq(task.did, LAMBDA d : d.op = "request")
Refreshes(task) == SelectSeq(task.did, LAMBDA d : d.op = "refresh")

\* C29: one call of _spotify_request sends at most two requests and makes at
\* most two refreshes; it refreshes before its first request exactly when it
\* found no token held; it sends a second request exactly after a 401 to the
\* first and a refresh that gave a token, and that request carries the new
\* token; whatever answers the second request is returned, a 401 too.
C29_AtMostOneRetry ==
    spotify # Idle =>
        \A t \in Tasks :
            LET task == spotify.tasks[t]
            IN /\ Len(Requests(task)) <= 2
               /\ Len(Refreshes(task)) <= 2
               /\ task.did # <<>> => (task.did[1].op = "refresh" <=> task.held = -1)
               /\ \A i \in DOMAIN task.did :
                      (task.did[i].op = "request" /\ i > 1) =>
                          task.did[i - 1] = Refreshing(task.did[i].token)
               /\ Len(Requests(task)) = 2 => (task.got # <<>> /\ task.got[1] = 401)
               /\ \A i \in DOMAIN task.did :
                      (task.did[i].op = "refresh" /\ task.did[i].ok) =>
                          i < Len(task.did) /\ task.did[i + 1] = Sent(task.did[i].token)
               /\ task.did # <<>> /\ task.did[1].op = "request" => task.did[1].token = task.held
               /\ (task.got # <<>> /\ task.got[1] = 401 /\ task.pc # "refreshing2"
                      /\ task.did[Len(task.did)].op = "request") => Len(Requests(task)) = 2
               /\ (Len(task.got) = 2 /\ task.got[2] # 0) => (task.pc = "done" /\ task.outcome = "returned")
               /\ Len(task.got) <= 2

\* A call that held token 0, got 401, refreshed to a new token, sent the
\* request again with that token, got 401 again and returned it.
C29_Witness ==
    /\ spotify # Idle
    /\ \E t \in Tasks :
          /\ spotify.tasks[t].pc = "done"
          /\ spotify.tasks[t].outcome = "returned"
          /\ spotify.tasks[t].got = <<401, 401>>
          /\ spotify.tasks[t].did = <<Sent(0), Refreshing(1), Sent(1)>>

\* The call raised.
ConversionRaised(c) == c.outcome.kind = "raised"

\* C30: whenever convert_currency raises, the rate cache is as it was before
\* the call: no entry is added, replaced or removed.
C30_RaisingLeavesCacheAlone ==
    \A i \in DOMAIN conversions :
        ConversionRaised(conversions[i]) => conversions[i].after = conversions[i].before

====
